---- MODULE Spec2Model ----
(***************************************************************************)
(* Model of one lane's ExperimentRunner and its Timer                      *)
(* (src/src/prcontrol/controller/experiment.py), driven by the command     *)
(* thread (ExperimentSupervisor.*_on) and by the Timer's own thread        *)
(* (Timer._check_time).  The power box and the controller are the          *)
(* environment: they record the LED commands, the take-sample prompts and  *)
(* the end_experiment calls they receive.                                  *)
(*                                                                         *)
(* Time is counted in whole seconds (the Timer sleeps one second per       *)
(* iteration); datetimes are seconds since the runner was constructed.     *)
(*                                                                         *)
(* Three names of experiment.py do not resolve as written:                 *)
(* self._led_front/_led_back (l.212-213), datetime.timedelta (l.72,78,84)  *)
(* and self.date (l.323).  They are read here as the names they stand for  *)
(* (_led_front_done/_led_back_done, timedelta, self._date); as written no  *)
(* runner can be constructed at all.  Everything else (assertions,         *)
(* IndexError, attributes that are read before they are assigned, a Thread *)
(* that is started twice) is modelled as Python executes it.               *)
(*                                                                         *)
(* A second specification, CtlSpec, models the Controller                  *)
(* (controller.py) with its PowerBox (power_box.py), the power box's panel *)
(* LEDs (common.py, StatusLeds) and the three lanes of the                 *)
(* ExperimentSupervisor as the Controller's sensor observers and the web   *)
(* API drive them.  Controller.__init__ constructs the supervisor as       *)
(* ExperimentSupervisor(self) (controller.py l.329) while experiment.py    *)
(* declares a constructor of seven callbacks: the wiring of these          *)
(* callbacks to the Controller is in no source file and is taken from the  *)
(* specification (ctl_set_intensity, ctl_update_led).                      *)
(*                                                                         *)
(* BoxSpec drives the PowerBox API and the panel LEDs alone.  DispSpec     *)
(* models the observable sensor state of common.py (the on_setattr hook    *)
(* sensor_observer_callback_dispatcher).  SensSpec models the Controller's *)
(* sensor observers together with the connection callbacks, which run      *)
(* PowerBox.initialize and ReactorBox.initialize, and the two reset        *)
(* operations; a box delivers notifications only while its link is up and  *)
(* its callbacks are registered.  PidSpec models the two threads of the    *)
(* PowerBox that share _led_pid: the caller of activate_led,               *)
(* deactivate_led and reset_leds, and the bricklet callback thread in      *)
(* _callback_lane_current, one action per statement.  FairSpec is Spec     *)
(* with weak fairness of the timer thread and of the clock.                *)
(***************************************************************************)
EXTENDS Integers, Sequences, FiniteSets, TLC

VARIABLES
    now,      \* wall clock, datetime.now()
    runner,   \* the fields of ExperimentRunner
    timer,    \* the fields of Timer
    thread,   \* Timer.thread: its life cycle and its position in _check_time
    env,      \* power box / controller as seen through the runner's callbacks
    ncalls,   \* number of calls made by the command thread
    sup,      \* Controller.experiment_supervisor: the runner of each lane
    box,      \* Controller.power_box: LED tables, relays, servo channels
    io,       \* Controller.power_box.io_panel: the panel LEDs
    ctl,      \* the Controller's own fields and sensor snapshot
    nsteps,   \* number of calls and notifications the Controller has had
    rio,      \* Controller.reactor_box.io_panel: the panel LEDs
    sens,     \* an observable sensor state and what its observers received
    pid       \* PowerBox: the command thread and the current callback's
              \* thread, each at its position in the call it is running

rvars == <<now, runner, timer, thread, env, ncalls>>

cvars == <<sup, box, io, ctl, nsteps, rio>>

dvars == <<sens, pid>>

vars ==
    <<now, runner, timer, thread, env, ncalls, sup, box, io, ctl, nsteps, rio,
      sens, pid>>

----------------------------------------------------------------------------
(* Bounds *)

MaxTime == 4
MaxCalls == 5
MaxSteps == 5
MaxBoxSteps == 3
MaxWrites == 3
MaxSensSteps == 5
MaxPidSteps == 10

(* time.sleep(1): the polling period of Timer._check_time *)
SleepSeconds == 1

(* LedSide *)
FRONT == "FRONT"
BACK == "BACK"
LedSide == {FRONT, BACK}

(* ExperimentTemplate: the three fields the runner reads for scheduling.   *)
(* T_TwoSamples has sample points inside the exposures, T_NoSamples has    *)
(* none, T_LateSample has its sample point past the longer exposure.       *)
T_TwoSamples == [front |-> 2, back |-> 3, tps |-> <<1, 2>>]
T_NoSamples == [front |-> 1, back |-> 2, tps |-> <<>>]
T_LateSample == [front |-> 1, back |-> 1, tps |-> <<2>>]
Templates == {T_TwoSamples, T_NoSamples, T_LateSample}

----------------------------------------------------------------------------
(* The combined state a handler works on.  A handler is an operator from   *)
(* such a record to such a record; exc is the exception the running call   *)
(* has raised ("none" while it has raised none): once it is set, the rest  *)
(* of the call is skipped.                                                 *)

St(r, t, e) == [r |-> r, t |-> t, e |-> e]

Raise(s, x) == [s EXCEPT !.e.exc = x]

Ok(s) == s.e.exc = "none"

----------------------------------------------------------------------------
(* Callbacks into the environment *)

(* update_led_X(LedState.HIGH) -> power box activates the position *)
update_led_high(s, side) ==
    [s EXCEPT !.e.led[side] = TRUE,
              !.e.times_activation_led[side] = @ + 1]

(* update_led_X(LedState.LOW) -> power box deactivates the position *)
update_led_low(s, side) ==
    [s EXCEPT !.e.led[side] = FALSE,
              !.e.times_deactivation_led[side] = @ + 1]

(* take_sample() -> controller.alert_take_sample *)
take_sample(s) == [s EXCEPT !.e.times_samples = @ + 1]

(* end_experiment(data): the record handed over *)
end_experiment(s) ==
    [s EXCEPT !.e.done = @ + 1,
              !.e.exp_data = [experiment_cancelled |-> s.r.canceled,
                              error_occured |-> s.r.error,
                              event_log |-> s.r.events,
                              measured_data |-> s.r.measurements]]

----------------------------------------------------------------------------
(* Timer *)

Timer_reset(s) ==
    [s EXCEPT !.t.time_led_front_set = FALSE,
              !.t.time_led_back_set = FALSE,
              !.t.time_next_sample_set = FALSE]

(* sets time_led_front_set, not time_next_sample_set *)
next_sample_in(s, timespan, t) ==
    [s EXCEPT !.t.datetime_next_sample = t + timespan,
              !.t.time_led_front_set = TRUE]

led_front_time(s, timespan, t) ==
    [s EXCEPT !.t.datetime_led_front = t + timespan,
              !.t.time_led_front_set = TRUE]

led_back_time(s, timespan, t) ==
    [s EXCEPT !.t.datetime_led_back = t + timespan,
              !.t.time_led_back_set = TRUE]

(* Timer.start: thread.start() raises RuntimeError on a Thread that was    *)
(* started before; datetime_start and running are assigned first.          *)
Timer_start(s, t, started) ==
    LET s1 == [s EXCEPT !.t.datetime_start = t, !.t.running = TRUE]
    IN  IF started THEN Raise(s1, "RuntimeError") ELSE s1

Timer_stop(s) == [s EXCEPT !.t.running = FALSE]

time_since_start(s, t) == t - s.t.datetime_start

Timer_pause(s, t) ==
    [s EXCEPT !.t.time_remaining_led_front = s.t.datetime_led_front - t,
              !.t.time_remaining_led_back = s.t.datetime_led_back - t,
              !.t.time_remaining_next_sample = s.t.datetime_next_sample - t,
              !.t.has_time_remaining = TRUE,
              !.t.paused = TRUE,
              !.t.has_paused = TRUE]

(* time_remaining_* exist only after the first pause(): AttributeError     *)
(* at the first statement otherwise.                                       *)
Timer_resume(s, t) ==
    IF ~s.t.has_time_remaining THEN Raise(s, "AttributeError")
    ELSE [s EXCEPT !.t.datetime_led_front = t + s.t.time_remaining_led_front,
                   !.t.datetime_led_back = t + s.t.time_remaining_led_back,
                   !.t.datetime_next_sample =
                       t + s.t.time_remaining_next_sample,
                   !.t.paused = FALSE,
                   !.t.has_paused = TRUE]

----------------------------------------------------------------------------
(* ExperimentRunner: private routines and timer callbacks *)

_finish_experiment(s) ==
    LET s1 == [s EXCEPT !.r.is_running = FALSE]
    IN  end_experiment(Timer_stop(s1))

(* pause_experiment: asserts is_running, nothing else *)
pause_experiment(s, t) ==
    IF ~s.r.is_running THEN Raise(s, "AssertionError")
    ELSE update_led_low(update_led_low(Timer_pause(s, t), BACK), FRONT)

(* resume_experiment: asserts is_running, nothing else *)
resume_experiment(s, t) ==
    IF ~s.r.is_running THEN Raise(s, "AssertionError")
    ELSE LET s1 == Timer_resume(s, t)
         IN  IF ~Ok(s1) THEN s1
             ELSE update_led_high(update_led_high(s1, BACK), FRONT)

(* Python indexing of a tuple: i may be negative (counted from the end) *)
InRange(tps, i) == -Len(tps) <= i /\ i < Len(tps)

At(tps, i) == IF i >= 0 THEN tps[i + 1] ELSE tps[Len(tps) + i + 1]

sample_was_taken(s, t) ==
    IF ~s.r.is_running \/ ~s.r.needs_sample THEN Raise(s, "AssertionError")
    ELSE LET s1 == [s EXCEPT !.r.needs_sample = FALSE]
             tps == s.r.template.tps
             k == s.r.state_sample
         IN  IF ~InRange(tps, k) \/ ~InRange(tps, k - 1)
             THEN Raise(s1, "IndexError")
             ELSE resume_experiment(
                      next_sample_in(s1, At(tps, k) - At(tps, k - 1), t), t)

add_event(s, t) ==
    IF ~s.r.is_running THEN Raise(s, "AssertionError")
    ELSE [s EXCEPT !.r.events = Append(@, time_since_start(s, t))]

cancel(s) ==
    IF ~s.r.is_running THEN Raise(s, "AssertionError")
    ELSE LET s1 == [s EXCEPT !.r.canceled = TRUE]
         IN  _finish_experiment(
                 update_led_low(update_led_low(s1, BACK), FRONT))

register_error(s) ==
    IF ~s.r.is_running THEN Raise(s, "AssertionError")
    ELSE [s EXCEPT !.r.error = TRUE]

_sample(s, t) ==
    LET s1 == pause_experiment([s EXCEPT !.r.needs_sample = TRUE], t)
    IN  IF ~Ok(s1) THEN s1
        ELSE LET s2 == [take_sample(s1) EXCEPT !.r.state_sample = @ + 1]
             IN  IF /\ s2.r.state_sample = Len(s2.r.template.tps)
                    /\ ~s2.r.state_led_back
                    /\ ~s2.r.state_led_front
                 THEN _finish_experiment(s2)
                 ELSE s2

_led_front_done(s) ==
    LET s1 == [update_led_low(s, FRONT) EXCEPT !.r.state_led_front = FALSE]
    IN  IF ~s1.r.state_led_back /\ s1.r.state_sample = Len(s1.r.template.tps)
        THEN _finish_experiment(s1)
        ELSE s1

_led_back_done(s) ==
    LET s1 == [update_led_low(s, BACK) EXCEPT !.r.state_led_back = FALSE]
    IN  IF ~s1.r.state_led_front /\ s1.r.state_sample = Len(s1.r.template.tps)
        THEN _finish_experiment(s1)
        ELSE s1

_measure(s) == [s EXCEPT !.r.measurements = @ + 1]

(* start_experiment: no check that the runner is idle.  The statements run *)
(* in source order; an exception leaves what was assigned before it.       *)
start_experiment(s, template, t, started) ==
    LET s1 == [s EXCEPT !.r.state_sample = 0,
                        !.r.state_led_back = TRUE,
                        !.r.state_led_front = TRUE,
                        !.r.is_running = TRUE,
                        !.r.needs_sample = FALSE,
                        !.r.template = template,
                        !.r.measurements = 0,
                        !.r.events = <<>>,
                        !.r.canceled = FALSE,
                        !.r.error = FALSE]
        s2 == led_front_time(
                  led_back_time(Timer_reset(s1), template.back, t),
                  template.front, t)
    IN  IF ~InRange(template.tps, 0) THEN Raise(s2, "IndexError")
        ELSE LET s3 == Timer_start(
                           next_sample_in(s2, At(template.tps, 0), t),
                           t, started)
             IN  IF ~Ok(s3) THEN s3
                 ELSE update_led_high(update_led_high(s3, BACK), FRONT)

----------------------------------------------------------------------------
(* Controller, power box and panel: the values they work on *)

LANE_1 == "LANE_1"
LANE_2 == "LANE_2"
LANE_3 == "LANE_3"
LedLane == {LANE_1, LANE_2, LANE_3}

LedPosition == [lane : LedLane, side : LedSide]

UNDEFINED == "UNDEFINED"
LOW == "LOW"
HIGH == "HIGH"
BLINK_SLOW == "BLINK_SLOW"
BLINK_FAST == "BLINK_FAST"
LedState == {UNDEFINED, LOW, HIGH, BLINK_SLOW, BLINK_FAST}

(* LedState.value: for the two blinking states the period in ms *)
LedStateValue(st) ==
    CASE st = BLINK_SLOW -> 500
      [] st = BLINK_FAST -> 200
      [] st = HIGH -> 1
      [] st = LOW -> 0
      [] OTHER -> -1

OPEN == "OPEN"
CLOSED == "CLOSED"
CaseLidState == {OPEN, CLOSED}

OK == "OK"
EXCEEDED == "EXCEEDED"
OK_AGAIN == "OK_AGAIN"
ABORT == "ABORT"
ThresholdStatus == {OK, EXCEEDED, OK_AGAIN, ABORT}

(* Output channels of the power box panel *)
_CHAN_LED_WARNING_TEMP_AMBIENT == 8
_CHAN_LED_MAINTENANCE_ACTIVE == 10
_CHAN_LED_CONNECTED == 11
_CHAN_LED_WARNING_VOLTAGE == 12
_CHAN_LED_WARNING_WATER == 13
_CHAN_LED_BOXES_CLOSED == 14

is_output_channel(channel) ==
    channel \in {_CHAN_LED_WARNING_TEMP_AMBIENT, _CHAN_LED_MAINTENANCE_ACTIVE,
                 _CHAN_LED_CONNECTED, _CHAN_LED_WARNING_VOLTAGE,
                 _CHAN_LED_WARNING_WATER, _CHAN_LED_BOXES_CLOSED}

(* The channels that carry a StatusLeds.led property *)
LedChannels == {ch \in 0..15 : is_output_channel(ch)}

_PWM_MAX_DGREE == 10000

(* ControllerConfig: the thresholds of the ambient temperature, in degrees *)
threshold_warn_ambient_temp == 50
threshold_abort_ambient_temp == 70

(* The LED descriptor of the template the lanes are started with:          *)
(* intensity in percent, max current in mA.                                *)
TemplateIntensity == 50
TemplateMaxCurrent == 500

(* A Python dict as a function on its keys *)
DictSet(d, k, v) == [q \in DOMAIN d \cup {k} |-> IF q = k THEN v ELSE d[q]]

DictPop(d, k) == [q \in DOMAIN d \ {k} |-> d[q]]

EmptyDict == [q \in {} |-> 0]

(* The state a call on the Controller works on.  ctl.exc is the exception  *)
(* the call has raised ("none" while it has raised none); every routine    *)
(* below is skipped once it is set.                                        *)
Ctx(s, b, p, k, r) == [sup |-> s, box |-> b, io |-> p, ctl |-> k, rio |-> r]

Fail(c, x) == [c EXCEPT !.ctl.exc = x]

Good(c) == c.ctl.exc = "none"

----------------------------------------------------------------------------
(* StatusLeds (common.py).  io.log lists the calls made on the I/O-16      *)
(* bricklet during the running call, in order.                             *)

IoCmd(name, channel, value, time) ==
    [cmd |-> name, chan |-> channel, val |-> value, time |-> time]

(* A monoflop callback that oscillates the channel: re-arms while the      *)
(* channel is in the blinking registry.                                    *)
_callback_io_16_led_blink(c, channel, val) ==
    IF ~Good(c) THEN c
    ELSE IF channel \notin DOMAIN c.io._blinking_io16_channels THEN c
    ELSE [c EXCEPT !.io.log =
             Append(@, IoCmd("set_monoflop", channel, val,
                             c.io._blinking_io16_channels[channel]))]

_set_led(c, channel, value) ==
    IF ~Good(c) THEN c
    ELSE IF ~is_output_channel(channel) THEN Fail(c, "AssertionError")
    ELSE [c EXCEPT !.io.log =
             Append(@, IoCmd("set_selected_value", channel, value, 0))]

_blink_led(c, channel, period_ms) ==
    IF ~Good(c) THEN c
    ELSE IF ~is_output_channel(channel) THEN Fail(c, "AssertionError")
    ELSE _callback_io_16_led_blink(
             [c EXCEPT !.io._blinking_io16_channels =
                           DictSet(@, channel, period_ms)],
             channel, TRUE)

(* _blink_stop_led that leaves the channel in the blinking registry *)
_blink_stop_led_keeps_entry(c, channel) == c

_blink_stop_led(c, channel) ==
    IF ~Good(c) THEN c
    ELSE IF channel \in DOMAIN c.io._blinking_io16_channels
         THEN [c EXCEPT !.io._blinking_io16_channels = DictPop(@, channel)]
         ELSE c

(* led without the comparison with the value held: every assignment is    *)
(* carried out.                                                            *)
led_always_writes(c, channel, new_value) ==
    IF ~Good(c) THEN c
    ELSE LET c1 == [c EXCEPT !.io.value_box[channel] = new_value]
         IN  CASE new_value \in {BLINK_SLOW, BLINK_FAST}
                    -> _blink_led(c1, channel, LedStateValue(new_value))
               [] new_value = HIGH
                    -> _set_led(_blink_stop_led(c1, channel), channel, TRUE)
               [] new_value = LOW
                    -> _set_led(_blink_stop_led(c1, channel), channel, FALSE)
               [] OTHER -> c1

(* The setter of a StatusLeds.led(channel) property: value_box is the box  *)
(* the property closes over.                                               *)
led(c, channel, new_value) ==
    IF ~Good(c) THEN c
    ELSE IF new_value = c.io.value_box[channel] THEN c
    ELSE LET c1 == [c EXCEPT !.io.value_box[channel] = new_value]
         IN  CASE new_value \in {BLINK_SLOW, BLINK_FAST}
                    -> _blink_led(c1, channel, LedStateValue(new_value))
               [] new_value = HIGH
                    -> _set_led(_blink_stop_led(c1, channel), channel, TRUE)
               [] new_value = LOW
                    -> _set_led(_blink_stop_led(c1, channel), channel, FALSE)
               [] OTHER -> c1

----------------------------------------------------------------------------
(* PowerBox (power_box.py).  box.log lists the calls made on the relay and *)
(* servo bricklets during the running call, in order; relay and            *)
(* servo_enabled hold the state these calls leave the hardware in.         *)
(* Intensities are in percent.                                             *)

BoxCmd(name, position, channel, value, degree) ==
    [cmd |-> name, led |-> position, chan |-> channel, val |-> value,
     pos |-> degree]

_get_servo_channel_from_led(position) ==
    CASE position.lane = LANE_1 /\ position.side = FRONT -> 0
      [] position.lane = LANE_1 /\ position.side = BACK -> 7
      [] position.lane = LANE_2 /\ position.side = FRONT -> 1
      [] position.lane = LANE_2 /\ position.side = BACK -> 8
      [] position.lane = LANE_3 /\ position.side = FRONT -> 2
      [] position.lane = LANE_3 /\ position.side = BACK -> 9

(* bricklet.set_selected_value(channel, value) on the position's relay *)
relay_set_selected_value(c, position, channel, value) ==
    [c EXCEPT !.box.relay[position][channel] = value,
              !.box.log = Append(@, BoxCmd("set_selected_value", position,
                                           channel, value, 0))]

(* servo.set_enable(channel, value) *)
servo_set_enable(c, position, value) ==
    [c EXCEPT !.box.servo_enabled[position] = value,
              !.box.log = Append(@, BoxCmd("set_enable", position,
                                    _get_servo_channel_from_led(position),
                                    value, 0))]

(* servo.set_position(channel, degree) *)
servo_set_position(c, position, degree) ==
    [c EXCEPT !.box.log = Append(@, BoxCmd("set_position", position,
                                    _get_servo_channel_from_led(position),
                                    FALSE, degree))]

(* _activate_led_power that closes side 0 before side 1 *)
_activate_led_power_side_0_first(c, position) ==
    IF ~Good(c) THEN c
    ELSE relay_set_selected_value(
             relay_set_selected_value(c, position, 0, TRUE),
             position, 1, TRUE)

_activate_led_power(c, position) ==
    IF ~Good(c) THEN c
    ELSE relay_set_selected_value(
             relay_set_selected_value(c, position, 1, TRUE),
             position, 0, TRUE)

_deactivate_led_power(c, position) ==
    IF ~Good(c) THEN c
    ELSE relay_set_selected_value(
             relay_set_selected_value(c, position, 0, FALSE),
             position, 1, FALSE)

_set_led_pwm_absolute_intensity(c, position, intensity) ==
    IF ~Good(c) THEN c
    ELSE IF ~(0 <= intensity /\ intensity <= 100)
         THEN Fail(c, "AssertionError")
    ELSE IF position \notin DOMAIN c.box._led_max_current
         THEN Fail(c, "AssertionError")
    ELSE servo_set_position(c, position,
                            (_PWM_MAX_DGREE * (100 - intensity)) \div 100)

_enable_led_pwm(c, position) ==
    IF ~Good(c) THEN c
    ELSE IF position \notin DOMAIN c.box._led_max_current
         THEN Fail(c, "AssertionError")
    ELSE servo_set_enable(c, position, TRUE)

_disable_led_pwm_controller(c, position) ==
    IF ~Good(c) THEN c
    ELSE servo_set_enable(c, position, FALSE)

set_led_max_current(c, position, milli_amps) ==
    IF ~Good(c) THEN c
    ELSE IF ~(0 <= milli_amps /\ milli_amps <= 1000)
         THEN Fail(c, "AssertionError: Max current is 1.0A.")
    ELSE [c EXCEPT !.box._led_max_current = DictSet(@, position, milli_amps)]

(* activate_led without the assertion on target_intensity *)
activate_led_no_range_check(c, position, target_intensity) ==
    IF ~Good(c) THEN c
    ELSE IF position \notin DOMAIN c.box._led_max_current
         THEN Fail(c, "AssertionError")
    ELSE LET c1 == _activate_led_power(
                       _enable_led_pwm(
                           _set_led_pwm_absolute_intensity(c, position, 0),
                           position),
                       position)
         IN  IF ~Good(c1) THEN c1
             ELSE [c1 EXCEPT !.box._led_pid =
                      DictSet(@, position,
                              (c1.box._led_max_current[position]
                                   * target_intensity) \div 100)]

(* The dict entry is a PidControllerBootstrapper: its target current *)
activate_led(c, position, target_intensity) ==
    IF ~Good(c) THEN c
    ELSE IF position \notin DOMAIN c.box._led_max_current
         THEN Fail(c, "AssertionError")
    ELSE IF ~(0 <= target_intensity /\ target_intensity <= 100)
         THEN Fail(c, "AssertionError")
    ELSE LET c1 == _activate_led_power(
                       _enable_led_pwm(
                           _set_led_pwm_absolute_intensity(c, position, 0),
                           position),
                       position)
         IN  IF ~Good(c1) THEN c1
             ELSE [c1 EXCEPT !.box._led_pid =
                      DictSet(@, position,
                              (c1.box._led_max_current[position]
                                   * target_intensity) \div 100)]

(* deactivate_led that leaves the PID entry in place *)
deactivate_led_keeps_pid(c, position) ==
    IF ~Good(c) THEN c
    ELSE _disable_led_pwm_controller(_deactivate_led_power(c, position),
                                     position)

(* self._led_pid.pop(led) has no default: KeyError when led is no key *)
deactivate_led(c, position) ==
    IF ~Good(c) THEN c
    ELSE LET c1 == _deactivate_led_power(c, position)
         IN  IF position \notin DOMAIN c1.box._led_pid
             THEN Fail(c1, "KeyError")
             ELSE _disable_led_pwm_controller(
                      [c1 EXCEPT !.box._led_pid = DictPop(@, position)],
                      position)

is_led_active(c, position) == position \in DOMAIN c.box._led_pid

----------------------------------------------------------------------------
(* The callbacks the supervisor is constructed with, as the Controller     *)
(* serves them: set_intensity_X and update_led_X drive the power box,      *)
(* end_experiment is Controller.end_experiment.                            *)

ctl_set_intensity(c, position) ==
    set_led_max_current(c, position, TemplateMaxCurrent)

ctl_update_led(c, position, new_state) ==
    IF new_state = HIGH
    THEN activate_led(c, position, TemplateIntensity)
    ELSE deactivate_led(c, position)

(* Controller.end_experiment prints the record and raises *)
Controller_end_experiment(c, lane) ==
    IF ~Good(c) THEN c ELSE Fail(c, "NotImplementedError")

----------------------------------------------------------------------------
(* ExperimentSupervisor.*_on with the ExperimentRunner method each of them *)
(* dispatches to, on the lane's runner sup[lane].  Of the Timer the lane   *)
(* keeps what these methods read and write: whether its Thread was started *)
(* (thread_started), paused, and whether time_remaining_* exist            *)
(* (has_time_remaining).  The template has sample points, and no one-shot  *)
(* timer expires within the calls modelled here.                           *)

Front(lane) == [lane |-> lane, side |-> FRONT]

Back(lane) == [lane |-> lane, side |-> BACK]

sup_start_experiment_on(c, lane) ==
    IF ~Good(c) THEN c
    ELSE LET c1 == [c EXCEPT !.sup[lane].is_running = TRUE,
                             !.sup[lane].events = <<>>,
                             !.sup[lane].canceled = FALSE,
                             !.sup[lane].error = FALSE]
         IN  IF c.sup[lane].thread_started THEN Fail(c1, "RuntimeError")
             ELSE ctl_update_led(
                      ctl_update_led(
                          ctl_set_intensity(
                              ctl_set_intensity(
                                  [c1 EXCEPT !.sup[lane].thread_started = TRUE],
                                  Back(lane)),
                              Front(lane)),
                          Back(lane), HIGH),
                      Front(lane), HIGH)

sup_pause_experiment_on(c, lane) ==
    IF ~Good(c) THEN c
    ELSE IF ~c.sup[lane].is_running THEN Fail(c, "AssertionError")
    ELSE ctl_update_led(
             ctl_update_led(
                 [c EXCEPT !.sup[lane].paused = TRUE,
                           !.sup[lane].has_time_remaining = TRUE],
                 Back(lane), LOW),
             Front(lane), LOW)

sup_resume_experiment_on(c, lane) ==
    IF ~Good(c) THEN c
    ELSE IF ~c.sup[lane].is_running THEN Fail(c, "AssertionError")
    ELSE IF ~c.sup[lane].has_time_remaining THEN Fail(c, "AttributeError")
    ELSE ctl_update_led(
             ctl_update_led([c EXCEPT !.sup[lane].paused = FALSE],
                            Back(lane), HIGH),
             Front(lane), HIGH)

sup_add_event_on(c, lane, event) ==
    IF ~Good(c) THEN c
    ELSE IF ~c.sup[lane].is_running THEN Fail(c, "AssertionError")
    ELSE [c EXCEPT !.sup[lane].events = Append(@, event)]

sup_register_error_on(c, lane) ==
    IF ~Good(c) THEN c
    ELSE IF ~c.sup[lane].is_running THEN Fail(c, "AssertionError")
    ELSE [c EXCEPT !.sup[lane].error = TRUE]

(* cancel, with _finish_experiment: is_running is cleared before the       *)
(* record is handed to end_experiment.                                     *)
sup_cancel_experiment_on(c, lane) ==
    IF ~Good(c) THEN c
    ELSE IF ~c.sup[lane].is_running THEN Fail(c, "AssertionError")
    ELSE LET c1 == ctl_update_led(
                       ctl_update_led([c EXCEPT !.sup[lane].canceled = TRUE],
                                      Back(lane), LOW),
                       Front(lane), LOW)
         IN  IF ~Good(c1) THEN c1
             ELSE Controller_end_experiment(
                      [c1 EXCEPT !.sup[lane].is_running = FALSE], lane)

----------------------------------------------------------------------------
(* Controller (controller.py) *)

_add_event_on_all_lanes(c, event_str) ==
    sup_add_event_on(
        sup_add_event_on(sup_add_event_on(c, LANE_1, event_str),
                         LANE_2, event_str),
        LANE_3, event_str)

_cancel_all_experiments(c) ==
    sup_cancel_experiment_on(
        sup_cancel_experiment_on(
            sup_cancel_experiment_on(
                sup_register_error_on(
                    sup_register_error_on(sup_register_error_on(c, LANE_1),
                                          LANE_2),
                    LANE_3),
                LANE_1),
            LANE_2),
        LANE_3)

(* new_state is the sensor snapshot with the written lid in place *)
_observer_boxes_closed(c) ==
    IF ~Good(c) THEN c
    ELSE IF c.ctl.powerbox_lid = CLOSED /\ c.ctl.reactorbox_lid = CLOSED
         THEN led(c, _CHAN_LED_BOXES_CLOSED, HIGH)
         ELSE led(c, _CHAN_LED_BOXES_CLOSED, LOW)

(* _observer_voltage_error without the is_led_active condition *)
_observer_voltage_error_any_led(c, milli_volts, position) ==
    IF ~Good(c) THEN c
    ELSE LET c1 ==
                 IF milli_volts = 0
                 THEN sup_cancel_experiment_on(
                          sup_register_error_on(
                              sup_add_event_on(
                                  [c EXCEPT !.ctl._voltage_errors =
                                                @ \cup {position}],
                                  position.lane, "Voltage Error"),
                              position.lane),
                          position.lane)
                 ELSE IF position \in c.ctl._voltage_errors
                      THEN [c EXCEPT !.ctl._voltage_errors = @ \ {position}]
                      ELSE c
             num_errors == Cardinality(c1.ctl._voltage_errors)
         IN  IF num_errors = 1
             THEN led(c1, _CHAN_LED_WARNING_VOLTAGE, BLINK_SLOW)
             ELSE IF num_errors # 0
                  THEN led(c1, _CHAN_LED_WARNING_VOLTAGE, BLINK_FAST)
                  ELSE led(c1, _CHAN_LED_WARNING_VOLTAGE, LOW)

_observer_voltage_error(c, milli_volts, position) ==
    IF ~Good(c) THEN c
    ELSE LET c1 ==
                 IF milli_volts = 0 /\ is_led_active(c, position)
                 THEN sup_cancel_experiment_on(
                          sup_register_error_on(
                              sup_add_event_on(
                                  [c EXCEPT !.ctl._voltage_errors =
                                                @ \cup {position}],
                                  position.lane, "Voltage Error"),
                              position.lane),
                          position.lane)
                 ELSE IF position \in c.ctl._voltage_errors
                      THEN [c EXCEPT !.ctl._voltage_errors = @ \ {position}]
                      ELSE c
             num_errors == Cardinality(c1.ctl._voltage_errors)
         IN  IF num_errors = 1
             THEN led(c1, _CHAN_LED_WARNING_VOLTAGE, BLINK_SLOW)
             ELSE IF num_errors # 0
                  THEN led(c1, _CHAN_LED_WARNING_VOLTAGE, BLINK_FAST)
                  ELSE led(c1, _CHAN_LED_WARNING_VOLTAGE, LOW)

AmbientLed(status) ==
    CASE status = OK -> HIGH
      [] status \in {EXCEEDED, ABORT} -> LOW
      [] status = OK_AGAIN -> BLINK_SLOW

(* _observer_ambient_temp with the status returning to OK when the         *)
(* temperature is back under the warning threshold                         *)
_observer_ambient_temp_back_to_ok(c, temp) ==
    IF ~Good(c) THEN c
    ELSE LET c1 ==
                 IF \/ temp > threshold_abort_ambient_temp
                    \/ c.ctl.ambient_temp_status = ABORT
                 THEN LET c2 == _cancel_all_experiments(
                                    _add_event_on_all_lanes(c,
                                        "Ambient Temperature exceeded critical threshold"))
                      IN  IF ~Good(c2) THEN c2
                          ELSE [c2 EXCEPT !.ctl.ambient_temp_status = ABORT]
                 ELSE IF temp > threshold_warn_ambient_temp
                 THEN _add_event_on_all_lanes(
                          [c EXCEPT !.ctl.ambient_temp_status = EXCEEDED],
                          "Ambient Temperature exceeded first threshold")
                 ELSE IF c.ctl.ambient_temp_status = EXCEEDED
                 THEN _add_event_on_all_lanes(
                          [c EXCEPT !.ctl.ambient_temp_status = OK],
                          "Ambient Temperature back to normal")
                 ELSE c
         IN  IF ~Good(c1) THEN c1
             ELSE led(c1, _CHAN_LED_WARNING_TEMP_AMBIENT,
                      AmbientLed(c1.ctl.ambient_temp_status))

_observer_ambient_temp(c, temp) ==
    IF ~Good(c) THEN c
    ELSE LET c1 ==
                 IF \/ temp > threshold_abort_ambient_temp
                    \/ c.ctl.ambient_temp_status = ABORT
                 THEN LET c2 == _cancel_all_experiments(
                                    _add_event_on_all_lanes(c,
                                        "Ambient Temperature exceeded critical threshold"))
                      IN  IF ~Good(c2) THEN c2
                          ELSE [c2 EXCEPT !.ctl.ambient_temp_status = ABORT]
                 ELSE IF temp > threshold_warn_ambient_temp
                 THEN _add_event_on_all_lanes(
                          [c EXCEPT !.ctl.ambient_temp_status = EXCEEDED],
                          "Ambient Temperature exceeded first threshold")
                 ELSE IF c.ctl.ambient_temp_status = EXCEEDED
                 THEN _add_event_on_all_lanes(
                          [c EXCEPT !.ctl.ambient_temp_status = OK_AGAIN],
                          "Ambient Temperature back to normal")
                 ELSE c
         IN  IF ~Good(c1) THEN c1
             ELSE led(c1, _CHAN_LED_WARNING_TEMP_AMBIENT,
                      AmbientLed(c1.ctl.ambient_temp_status))

----------------------------------------------------------------------------
(* ReactorBoxStatusLeds (reactor_box.py): the second StatusLeds panel.     *)
(* rio.log lists the calls made on its I/O-16 bricklet during the running  *)
(* call.                                                                   *)

_CHAN_LED_WARNING_TEMP_LANE_1 == 9
_CHAN_LED_WARNING_TEMP_LANE_2 == 10
_CHAN_LED_WARNING_TEMP_LANE_3 == 11
_CHAN_LED_WARNING_THERMOCOUPLE == 13

reactor_is_output_channel(channel) == channel \in 3..13

ReactorLedChannels == {ch \in 0..15 : reactor_is_output_channel(ch)}

(* The setter of a StatusLeds.led(channel) property of the reactor panel:  *)
(* StatusLeds.led with _blink_led, _blink_stop_led and _set_led on the     *)
(* reactor box's bricklet.                                                 *)
reactor_led(c, channel, new_value) ==
    IF ~Good(c) THEN c
    ELSE IF new_value = c.rio.value_box[channel] THEN c
    ELSE LET c1 == [c EXCEPT !.rio.value_box[channel] = new_value]
         IN  CASE new_value \in {BLINK_SLOW, BLINK_FAST}
                    -> IF ~reactor_is_output_channel(channel)
                       THEN Fail(c1, "AssertionError")
                       ELSE [c1 EXCEPT
                                !.rio._blinking_io16_channels =
                                    DictSet(@, channel,
                                            LedStateValue(new_value)),
                                !.rio.log =
                                    Append(@, IoCmd("set_monoflop", channel,
                                                    TRUE,
                                                    LedStateValue(new_value)))]
               [] new_value \in {HIGH, LOW}
                    -> IF ~reactor_is_output_channel(channel)
                       THEN Fail([c1 EXCEPT !.rio._blinking_io16_channels =
                                                DictPop(@, channel)],
                                 "AssertionError")
                       ELSE [c1 EXCEPT
                                !.rio._blinking_io16_channels =
                                    DictPop(@, channel),
                                !.rio.log =
                                    Append(@, IoCmd("set_selected_value",
                                                    channel, new_value = HIGH,
                                                    0))]
               [] OTHER -> c1

----------------------------------------------------------------------------
(* Observable sensor state (common.py): an attrs class whose on_setattr    *)
(* hook is sensor_observer_callback_dispatcher, with the two data fields   *)
(* of the SensorState of tests/test_sensor_observable_api.py and the       *)
(* callback field.  Observers record what they are called with, the old    *)
(* state as it reads during the call.                                      *)

SensorFields == {"button_pressed", "temp"}

(* Values written: degrees for temp, Python's False and True (the integers *)
(* 0 and 1) for button_pressed.                                            *)
FieldValues(attribute) == 0..1

Observers == {"cb1", "cb2"}

(* SensorObserver: None, a callable or a list of callables *)
NoCallback == [kind |-> "None", fs |-> <<>>]

SingleCallback(f) == [kind |-> "callable", fs |-> <<f>>]

ListCallback(fs) == [kind |-> "list", fs |-> fs]

SensorObserver ==
    {NoCallback} \cup {SingleCallback(f) : f \in Observers}
        \cup {ListCallback(<<>>), ListCallback(<<"cb1", "cb2">>),
              ListCallback(<<"cb2", "cb1">>)}

(* The attrs fields of the object *)
Fields(s) ==
    [button_pressed |-> s.button_pressed, temp |-> s.temp,
     callback |-> s.callback]

(* attrs.evolve(self, callback=None, attribute.name=value) *)
evolve(s, attribute, value) ==
    [Fields(s) EXCEPT !.callback = NoCallback, ![attribute] = value]

(* f(self, evolved, attribute, value) for a recording observer f *)
observer_call(s, f, evolved, attribute, value) ==
    [s EXCEPT !.received =
         Append(@, [observer |-> f, old |-> Fields(s), new |-> evolved,
                    attribute |-> attribute, value |-> value])]

RECURSIVE dispatch_list(_, _, _, _, _)
dispatch_list(s, fs, evolved, attribute, value) ==
    IF fs = <<>> THEN s
    ELSE dispatch_list(observer_call(s, Head(fs), evolved, attribute, value),
                       Tail(fs), evolved, attribute, value)

(* The dispatcher handing the observers the old state as the new one *)
sensor_observer_callback_dispatcher_stale(s, attribute, value) ==
    IF attribute # "callback" /\ s.callback.kind # "None"
    THEN dispatch_list(s, s.callback.fs, Fields(s), attribute, value)
    ELSE s

sensor_observer_callback_dispatcher(s, attribute, value) ==
    IF attribute # "callback" /\ s.callback.kind # "None"
    THEN IF s.callback.kind = "list"
         THEN dispatch_list(s, s.callback.fs, evolve(s, attribute, value),
                            attribute, value)
         ELSE observer_call(s, s.callback.fs[1], evolve(s, attribute, value),
                            attribute, value)
    ELSE s

(* s.attribute = value: the hook runs, then attrs stores what it returns;  *)
(* the callback field has on_setattr=NO_OP.                                *)
SensorState_setattr(s, attribute, value) ==
    IF attribute = "callback" THEN [s EXCEPT !.callback = value]
    ELSE [sensor_observer_callback_dispatcher(s, attribute, value)
              EXCEPT ![attribute] = value]

----------------------------------------------------------------------------
(* Controller (controller.py): the observers of the water sensor, the IR   *)
(* temperatures and the thermocouple, the initialisation of the two boxes  *)
(* and the connection callbacks.  ctl.power_callbacks and                  *)
(* ctl.reactor_callbacks say how far the last initialize got in            *)
(* registering the callbacks of the bricklets ("none", "io", "all");       *)
(* ctl.power_link and ctl.reactor_link are the state of the two            *)
(* IPConnections.  Calls on the bricklets succeed.                         *)

(* ControllerConfig: the per-lane IR thresholds and the thermocouple, in   *)
(* degrees                                                                 *)
threshold_warn_IR_temp == [lane \in LedLane |-> 50]
threshold_abort_IR_temp == [lane \in LedLane |-> 70]
threshold_thermocouple_temp == 50
threshold_thermocouple_affected_lanes == {LANE_1, LANE_2}

(* The orders in which a for loop may enumerate a frozenset of lanes *)
IterationOrders(lanes) ==
    {order \in [1..Cardinality(lanes) -> lanes] :
         \A lane \in lanes : \E i \in DOMAIN order : order[i] = lane}

(* sample_was_taken asserts is_running and needs_sample; needs_sample is   *)
(* set by _sample only, which no lane reaches within the calls modelled.   *)
sup_sample_was_taken_on(c, lane) ==
    IF ~Good(c) THEN c ELSE Fail(c, "AssertionError")

_observer_sample_taken(c, taken, lane) ==
    IF ~Good(c) THEN c
    ELSE IF ~taken THEN c
    ELSE sup_sample_was_taken_on(c, lane)

_observer_maintenance(c, maintenance_mode_active) ==
    IF maintenance_mode_active
    THEN led(c, _CHAN_LED_MAINTENANCE_ACTIVE, HIGH)
    ELSE led(c, _CHAN_LED_MAINTENANCE_ACTIVE, LOW)

_observer_water_sensor(c, detected) ==
    IF ~Good(c) THEN c
    ELSE IF ~detected THEN led(c, _CHAN_LED_WARNING_WATER, LOW)
    ELSE led(_cancel_all_experiments(
                 _add_event_on_all_lanes(c, "Water leakage detected")),
             _CHAN_LED_WARNING_WATER, BLINK_FAST)

IrLed(status) ==
    CASE status = ABORT -> LOW
      [] status = EXCEEDED -> BLINK_FAST
      [] status = OK_AGAIN -> BLINK_SLOW
      [] OTHER -> HIGH

IrChannel(lane) ==
    CASE lane = LANE_1 -> _CHAN_LED_WARNING_TEMP_LANE_1
      [] lane = LANE_2 -> _CHAN_LED_WARNING_TEMP_LANE_2
      [] lane = LANE_3 -> _CHAN_LED_WARNING_TEMP_LANE_3

(* The status and the LED are assigned at the end, after the calls on the  *)
(* supervisor.                                                             *)
_observer_ir_temp_lane(c, temp, lane) ==
    IF ~Good(c) THEN c
    ELSE LET old_status == c.ctl.IR_temp_threshold_status[lane]
             branch ==
                 IF temp > threshold_abort_IR_temp[lane] \/ old_status = ABORT
                 THEN "abort"
                 ELSE IF temp > threshold_warn_IR_temp[lane] THEN "warn"
                 ELSE IF old_status = EXCEEDED THEN "normal"
                 ELSE "hold"
             c1 == CASE branch = "abort"
                          -> sup_cancel_experiment_on(
                                 sup_register_error_on(
                                     sup_add_event_on(c, lane,
                                         "IR Temperature exceeded critical threshold"),
                                     lane),
                                 lane)
                     [] branch = "warn"
                          -> sup_add_event_on(c, lane,
                                 "IR Temperature exceeded first threshold")
                     [] branch = "normal"
                          -> sup_add_event_on(c, lane,
                                 "IR Temperature back to normal")
                     [] OTHER -> c
             new_status == CASE branch = "abort" -> ABORT
                             [] branch = "warn" -> EXCEEDED
                             [] branch = "normal" -> OK_AGAIN
                             [] OTHER -> old_status
         IN  IF ~Good(c1) THEN c1
             ELSE reactor_led(
                      [c1 EXCEPT !.ctl.IR_temp_threshold_status[lane] =
                                     new_status],
                      IrChannel(lane), IrLed(new_status))

RECURSIVE thermocouple_cancel(_, _)
thermocouple_cancel(c, order) ==
    IF order = <<>> THEN c
    ELSE thermocouple_cancel(
             sup_cancel_experiment_on(
                 sup_register_error_on(
                     sup_add_event_on(c, Head(order),
                         "Thermocouple exceeded critical threshold"),
                     Head(order)),
                 Head(order)),
             Tail(order))

(* order: the order in which the loop enumerates affected_lanes *)
_observer_thermocouple(c, temp, order) ==
    IF ~Good(c) THEN c
    ELSE LET c1 ==
                 IF temp > threshold_thermocouple_temp
                 THEN thermocouple_cancel(
                          [c EXCEPT !.ctl.thermocouple_theshold_status =
                                        EXCEEDED],
                          order)
                 ELSE IF c.ctl.thermocouple_theshold_status = EXCEEDED
                      THEN [c EXCEPT !.ctl.thermocouple_theshold_status =
                                         OK_AGAIN]
                      ELSE c
         IN  IF c1.ctl.thermocouple_theshold_status = OK
             THEN reactor_led(c1, _CHAN_LED_WARNING_THERMOCOUPLE, HIGH)
             ELSE IF c1.ctl.thermocouple_theshold_status = OK_AGAIN
             THEN reactor_led(c1, _CHAN_LED_WARNING_THERMOCOUPLE, BLINK_SLOW)
             ELSE reactor_led(c1, _CHAN_LED_WARNING_THERMOCOUPLE, HIGH)

reset_ambient_temp_warning(c) == [c EXCEPT !.ctl.ambient_temp_status = OK]

reset_lane_ir_warnings(c) ==
    [c EXCEPT !.ctl.IR_temp_threshold_status = [lane \in LedLane |-> OK]]

(* A write of a lid field by _callback_io16_single_input, with the         *)
(* observer the dispatcher calls for it.                                   *)
write_powerbox_lid(c, state) ==
    IF ~Good(c) THEN c
    ELSE _observer_boxes_closed([c EXCEPT !.ctl.powerbox_lid = state])

write_reactorbox_lid(c, state) ==
    IF ~Good(c) THEN c
    ELSE _observer_boxes_closed([c EXCEPT !.ctl.reactorbox_lid = state])

(* A callback registration that an earlier initialize made stays *)
Registered_upto(old, new) ==
    IF old = "all" \/ new = "all" THEN "all"
    ELSE IF old = "io" \/ new = "io" THEN "io"
    ELSE "none"

(* PowerBox.initialize: registers the I/O-16 input callback, feeds the     *)
(* values the inputs have now through _callback_io16_all_inputs (channels  *)
(* in ascending order: the two lids, the water sensor), registers the      *)
(* other callbacks and assigns the panel LEDs their default.               *)
PowerBox_initialize(c, powerbox_lid, reactorbox_lid, water_detected) ==
    IF ~Good(c) THEN c
    ELSE LET c1 == [c EXCEPT !.ctl.power_callbacks =
                                 Registered_upto(@, "io")]
             c2 == _observer_water_sensor(
                       write_reactorbox_lid(
                           write_powerbox_lid(c1, powerbox_lid),
                           reactorbox_lid),
                       water_detected)
         IN  IF ~Good(c2) THEN c2
             ELSE led(led(led(led(led(led(
                      [c2 EXCEPT !.ctl.power_callbacks = "all"],
                      _CHAN_LED_WARNING_TEMP_AMBIENT, HIGH),
                      _CHAN_LED_MAINTENANCE_ACTIVE, HIGH),
                      _CHAN_LED_CONNECTED, HIGH),
                      _CHAN_LED_WARNING_VOLTAGE, HIGH),
                      _CHAN_LED_WARNING_WATER, HIGH),
                      _CHAN_LED_BOXES_CLOSED, HIGH)

RECURSIVE reactor_leds_default(_, _)
reactor_leds_default(c, channels) ==
    IF channels = {} THEN c
    ELSE LET ch == CHOOSE x \in channels : \A y \in channels : x <= y
         IN  reactor_leds_default(reactor_led(c, ch, HIGH), channels \ {ch})

(* ReactorBox.initialize: registers the thermocouple and I/O-16 callbacks, *)
(* feeds the inputs through _callback_io16_all_inputs (the three sample    *)
(* buttons, then the maintenance switch), registers the other callbacks    *)
(* and assigns the panel LEDs their default.  taken: the lanes whose       *)
(* sample input reads as taken.                                            *)
ReactorBox_initialize(c, taken, maintenance_mode) ==
    IF ~Good(c) THEN c
    ELSE LET c1 == [c EXCEPT !.ctl.reactor_callbacks =
                                 Registered_upto(@, "io")]
             c2 == _observer_maintenance(
                       _observer_sample_taken(
                           _observer_sample_taken(
                               _observer_sample_taken(c1, LANE_1 \in taken,
                                                      LANE_1),
                               LANE_2 \in taken, LANE_2),
                           LANE_3 \in taken, LANE_3),
                       maintenance_mode)
         IN  IF ~Good(c2) THEN c2
             ELSE reactor_leds_default(
                      [c2 EXCEPT !.ctl.reactor_callbacks = "all"],
                      ReactorLedChannels)

_set_connected_led(c) ==
    IF ~Good(c) THEN c
    ELSE IF c.ctl.reactor_box_connected /\ c.ctl.power_box_connected
         THEN led(c, _CHAN_LED_CONNECTED, BLINK_FAST)
         ELSE c

_callback_reactor_box_connected(c, taken, maintenance_mode) ==
    _set_connected_led(
        ReactorBox_initialize(
            [c EXCEPT !.ctl.reactor_box_connected = TRUE,
                      !.ctl.reactor_link = TRUE],
            taken, maintenance_mode))

_callback_reactor_box_disconnected(c) ==
    _set_connected_led([c EXCEPT !.ctl.reactor_box_connected = FALSE,
                                 !.ctl.reactor_link = FALSE])

_callback_power_box_connected(c, powerbox_lid, reactorbox_lid, water_detected) ==
    _set_connected_led(
        PowerBox_initialize(
            [c EXCEPT !.ctl.power_box_connected = TRUE,
                      !.ctl.power_link = TRUE],
            powerbox_lid, reactorbox_lid, water_detected))

_callback_power_box_disconnected(c) ==
    _set_connected_led([c EXCEPT !.ctl.power_box_connected = FALSE,
                                 !.ctl.power_link = FALSE])

----------------------------------------------------------------------------
(* State after ExperimentSupervisor.__init__ has constructed the runner.   *)
(* Timer.__init__ assigns neither running, paused nor time_remaining_*:    *)
(* has_paused and has_time_remaining say whether the attribute exists yet  *)
(* (running is never read before Timer.start or Timer.stop assigned it).   *)
(* ExperimentRunner.__init__ does not assign template either; no code      *)
(* reads it before start_experiment has assigned it, so the value it holds *)
(* here is never used.                                                     *)

InitRunner ==
    [is_running |-> FALSE, state_sample |-> 0,
     state_led_back |-> FALSE, state_led_front |-> FALSE,
     needs_sample |-> FALSE, measurements |-> 0, events |-> <<>>,
     canceled |-> FALSE, error |-> FALSE, template |-> T_NoSamples]

InitTimer ==
    [datetime_start |-> 0, datetime_led_front |-> 0, datetime_led_back |-> 0,
     datetime_next_sample |-> 0,
     time_led_front_set |-> FALSE, time_led_back_set |-> FALSE,
     time_next_sample_set |-> FALSE,
     time_remaining_led_front |-> 0, time_remaining_led_back |-> 0,
     time_remaining_next_sample |-> 0, has_time_remaining |-> FALSE,
     running |-> FALSE, paused |-> FALSE, has_paused |-> FALSE]

InitThread == [started |-> FALSE, pc |-> "new", current_time |-> 0, wake |-> 0]

InitEnv ==
    [led |-> [p \in LedSide |-> FALSE],
     times_activation_led |-> [p \in LedSide |-> 0],
     times_deactivation_led |-> [p \in LedSide |-> 0],
     times_samples |-> 0, done |-> 0,
     exp_data |-> [experiment_cancelled |-> FALSE, error_occured |-> FALSE,
                   event_log |-> <<>>, measured_data |-> 0],
     exc |-> "none"]

(* State after Controller.__init__: PowerBoxSensorState.empty() has both   *)
(* lids OPEN, ControllerState.default() has both boxes connected and every *)
(* threshold status OK; no panel LED was assigned yet.  Relays are open    *)
(* and servo channels disabled at power-on.                                *)

InitLane ==
    [is_running |-> FALSE, thread_started |-> FALSE, paused |-> FALSE,
     has_time_remaining |-> FALSE, events |-> <<>>, error |-> FALSE,
     canceled |-> FALSE]

InitSup == [lane \in LedLane |-> InitLane]

InitBox ==
    [_led_max_current |-> EmptyDict, _led_pid |-> EmptyDict,
     relay |-> [position \in LedPosition |-> [ch \in {0, 1} |-> FALSE]],
     servo_enabled |-> [position \in LedPosition |-> FALSE],
     log |-> <<>>]

InitIo ==
    [value_box |-> [ch \in LedChannels |-> UNDEFINED],
     _blinking_io16_channels |-> EmptyDict,
     log |-> <<>>]

InitCtl ==
    [ambient_temp_status |-> OK, _voltage_errors |-> {},
     IR_temp_threshold_status |-> [lane \in LedLane |-> OK],
     thermocouple_theshold_status |-> OK,
     powerbox_lid |-> OPEN, reactorbox_lid |-> OPEN,
     reactor_box_connected |-> TRUE, power_box_connected |-> TRUE,
     power_callbacks |-> "none", reactor_callbacks |-> "none",
     power_link |-> FALSE, reactor_link |-> FALSE,
     exc |-> "none"]

InitRio ==
    [value_box |-> [ch \in ReactorLedChannels |-> UNDEFINED],
     _blinking_io16_channels |-> EmptyDict,
     log |-> <<>>]

(* SensorState(False, Temperature.from_celsius(0)) *)
InitSens ==
    [button_pressed |-> 0, temp |-> 0, callback |-> NoCallback,
     received |-> <<>>, nwrites |-> 0]

(* Both threads of the power box are outside any call; controllers is the  *)
(* set of positions whose _led_pid entry is a PidController (the other     *)
(* entries are PidControllerBootstrappers).                                *)
InitPid ==
    [cmd_pc |-> "idle", cmd_led |-> [lane |-> LANE_1, side |-> FRONT],
     cmd_exc |-> "none",
     cb_pc |-> "idle", cb_led |-> [lane |-> LANE_1, side |-> FRONT],
     cb_controller |-> "none", cb_target |-> 0, cb_intensity |-> 0,
     cb_exc |-> "none",
     controllers |-> {}, n |-> 0]

Init ==
    /\ now = 0
    /\ runner = InitRunner
    /\ timer = InitTimer
    /\ thread = InitThread
    /\ env = InitEnv
    /\ ncalls = 0
    /\ sup = InitSup
    /\ box = InitBox
    /\ io = InitIo
    /\ ctl = InitCtl
    /\ nsteps = 0
    /\ rio = InitRio
    /\ sens = InitSens
    /\ pid = InitPid

----------------------------------------------------------------------------
(* Command thread: one action per ExperimentSupervisor.*_on call, each the *)
(* whole call on this lane's runner.                                       *)

Cur == St(runner, timer, [env EXCEPT !.exc = "none"])

Commit(s) ==
    /\ runner' = s.r
    /\ timer' = s.t
    /\ env' = s.e

Call(s) ==
    /\ ncalls < MaxCalls
    /\ ncalls' = ncalls + 1
    /\ Commit(s)
    /\ now' = now
    /\ UNCHANGED cvars
    /\ UNCHANGED dvars

(* thread.start() is reached when time_points_sample_taking[0] exists; it  *)
(* starts the thread only if the Thread object was never started.          *)
start_experiment_on ==
    \E template \in Templates :
        /\ Call(start_experiment(Cur, template, now, thread.started))
        /\ thread' = IF InRange(template.tps, 0) /\ ~thread.started
                     THEN [thread EXCEPT !.started = TRUE, !.pc = "while"]
                     ELSE thread

pause_experiment_on ==
    /\ Call(pause_experiment(Cur, now))
    /\ UNCHANGED thread

resume_experiment_on ==
    /\ Call(resume_experiment(Cur, now))
    /\ UNCHANGED thread

cancel_experiment_on ==
    /\ Call(cancel(Cur))
    /\ UNCHANGED thread

sample_was_taken_on ==
    /\ Call(sample_was_taken(Cur, now))
    /\ UNCHANGED thread

add_event_on ==
    /\ Call(add_event(Cur, now))
    /\ UNCHANGED thread

register_error_on ==
    /\ Call(register_error(Cur))
    /\ UNCHANGED thread

----------------------------------------------------------------------------
(* Timer thread: Timer._check_time, one action per statement of the loop.  *)
(* An exception that escapes a callback ends the thread ("dead"); it does  *)
(* not reach the command thread, whose last outcome env.exc is kept.       *)

ThreadStep(s, nextpc) ==
    /\ runner' = s.r
    /\ timer' = s.t
    /\ env' = [s.e EXCEPT !.exc = env.exc]
    /\ thread' = [thread EXCEPT
                     !.pc = IF Ok(s) THEN nextpc ELSE "dead",
                     !.wake = IF Ok(s) /\ nextpc = "sleep"
                              THEN now + SleepSeconds ELSE @]
    /\ UNCHANGED <<now, ncalls>>
    /\ UNCHANGED cvars
    /\ UNCHANGED dvars

(* while self.running: *)
check_time_while ==
    /\ thread.pc = "while"
    /\ ThreadStep(Cur, IF timer.running THEN "if_paused" ELSE "exited")

(* if not self.paused: *)
check_time_if_paused ==
    /\ thread.pc = "if_paused"
    /\ IF ~timer.has_paused
       THEN ThreadStep(Raise(Cur, "AttributeError"), "dead")
       ELSE ThreadStep(Cur, IF timer.paused THEN "sleep" ELSE "measure")

(* self.callback_measure(); current_time = datetime.now() *)
check_time_measure ==
    /\ thread.pc = "measure"
    /\ runner' = _measure(Cur).r
    /\ thread' = [thread EXCEPT !.pc = "chk_sample", !.current_time = now]
    /\ UNCHANGED <<now, timer, env, ncalls>>
    /\ UNCHANGED cvars
    /\ UNCHANGED dvars

check_time_sample ==
    /\ thread.pc = "chk_sample"
    /\ IF /\ timer.time_next_sample_set
          /\ thread.current_time > timer.datetime_next_sample
       THEN ThreadStep(
                _sample([Cur EXCEPT !.t.time_next_sample_set = FALSE], now),
                "chk_front")
       ELSE ThreadStep(Cur, "chk_front")

check_time_led_front ==
    /\ thread.pc = "chk_front"
    /\ IF /\ timer.time_led_front_set
          /\ thread.current_time > timer.datetime_led_front
       THEN ThreadStep(
                _led_front_done([Cur EXCEPT !.t.time_led_front_set = FALSE]),
                "chk_back")
       ELSE ThreadStep(Cur, "chk_back")

check_time_led_back ==
    /\ thread.pc = "chk_back"
    /\ IF /\ timer.time_led_back_set
          /\ thread.current_time > timer.datetime_led_back
       THEN ThreadStep(
                _led_back_done([Cur EXCEPT !.t.time_led_back_set = FALSE]),
                "sleep")
       ELSE ThreadStep(Cur, "sleep")

(* time.sleep(1) *)
check_time_sleep ==
    /\ thread.pc = "sleep"
    /\ now >= thread.wake
    /\ thread' = [thread EXCEPT !.pc = "while"]
    /\ UNCHANGED <<now, runner, timer, env, ncalls>>
    /\ UNCHANGED cvars
    /\ UNCHANGED dvars

(* The timer thread has a statement to execute now. *)
Runnable ==
    \/ thread.pc \in {"while", "if_paused", "measure",
                      "chk_sample", "chk_front", "chk_back"}
    \/ thread.pc = "sleep" /\ now >= thread.wake

(* One second passes; the statements of the loop take no time. *)
Tick ==
    /\ now < MaxTime
    /\ ~Runnable
    /\ now' = now + 1
    /\ UNCHANGED <<runner, timer, thread, env, ncalls>>
    /\ UNCHANGED cvars
    /\ UNCHANGED dvars

Next ==
    \/ start_experiment_on
    \/ pause_experiment_on
    \/ resume_experiment_on
    \/ cancel_experiment_on
    \/ sample_was_taken_on
    \/ add_event_on
    \/ register_error_on
    \/ check_time_while
    \/ check_time_if_paused
    \/ check_time_measure
    \/ check_time_sample
    \/ check_time_led_front
    \/ check_time_led_back
    \/ check_time_sleep
    \/ Tick

Spec == Init /\ [][Next]_vars

----------------------------------------------------------------------------
(* The Controller: one action per call of the web API on the supervisor,   *)
(* per sensor notification and per connection callback, each the whole     *)
(* call.  The logs and the exception belong to the call in progress.       *)

(* Inputs *)
MilliVolts == {0, 12000}
Temperatures == {40, 60, 75}
MilliAmps == {500, 1500}
Intensities == {-50, 50, 150}
SampleInputs == {{}, {LANE_1}}

CtlCur ==
    Ctx(sup, [box EXCEPT !.log = <<>>], [io EXCEPT !.log = <<>>],
        [ctl EXCEPT !.exc = "none"], [rio EXCEPT !.log = <<>>])

CtlCall(c) ==
    /\ nsteps < MaxSteps
    /\ nsteps' = nsteps + 1
    /\ sup' = c.sup
    /\ box' = c.box
    /\ io' = c.io
    /\ ctl' = c.ctl
    /\ rio' = c.rio
    /\ UNCHANGED rvars
    /\ UNCHANGED dvars

api_start_experiment(lane) == CtlCall(sup_start_experiment_on(CtlCur, lane))

api_pause_experiment(lane) == CtlCall(sup_pause_experiment_on(CtlCur, lane))

api_resume_experiment(lane) == CtlCall(sup_resume_experiment_on(CtlCur, lane))

api_cancel_experiment(lane) == CtlCall(sup_cancel_experiment_on(CtlCur, lane))

(* Sensor callbacks arrive from a box while its IPConnection is up and the  *)
(* callback of the bricklet is registered: the I/O-16 input callback from  *)
(* the first statements of initialize on, the others once initialize has   *)
(* run through.                                                            *)
PowerInputs == ctl.power_link /\ ctl.power_callbacks # "none"

PowerSensors == ctl.power_link /\ ctl.power_callbacks = "all"

ReactorInputs == ctl.reactor_link /\ ctl.reactor_callbacks # "none"

ReactorSensors == ctl.reactor_link /\ ctl.reactor_callbacks = "all"

(* PowerBox._callback_lane_voltage writes the sensor field; the dispatcher *)
(* calls the observer registered for it.                                   *)
voltage_notification(position, milli_volts) ==
    /\ PowerSensors
    /\ CtlCall(_observer_voltage_error(CtlCur, milli_volts, position))

(* ReactorBox._callback_temperature *)
ambient_notification(temp) ==
    /\ ReactorSensors
    /\ CtlCall(_observer_ambient_temp(CtlCur, temp))

(* PowerBox._callback_io16_single_input on one of the two lid channels *)
powerbox_lid_notification(state) ==
    /\ PowerInputs
    /\ CtlCall(write_powerbox_lid(CtlCur, state))

reactorbox_lid_notification(state) ==
    /\ PowerInputs
    /\ CtlCall(write_reactorbox_lid(CtlCur, state))

(* PowerBox._callback_io16_single_input on the water channel *)
water_notification(detected) ==
    /\ PowerInputs
    /\ CtlCall(_observer_water_sensor(CtlCur, detected))

(* ReactorBox._callback_temperature_ir *)
ir_notification(lane, temp) ==
    /\ ReactorSensors
    /\ CtlCall(_observer_ir_temp_lane(CtlCur, temp, lane))

(* ReactorBox._callback_thermocouple: registered before the inputs are fed *)
thermocouple_notification(temp, order) ==
    /\ ReactorInputs
    /\ CtlCall(_observer_thermocouple(CtlCur, temp, order))

(* IPConnection.CALLBACK_CONNECTED / CALLBACK_DISCONNECTED *)
power_box_connected(powerbox_lid, reactorbox_lid, water_detected) ==
    /\ ~ctl.power_link
    /\ CtlCall(_callback_power_box_connected(CtlCur, powerbox_lid,
                                             reactorbox_lid, water_detected))

power_box_disconnected ==
    /\ ctl.power_link
    /\ CtlCall(_callback_power_box_disconnected(CtlCur))

reactor_box_connected(taken, maintenance_mode) ==
    /\ ~ctl.reactor_link
    /\ CtlCall(_callback_reactor_box_connected(CtlCur, taken,
                                               maintenance_mode))

reactor_box_disconnected ==
    /\ ctl.reactor_link
    /\ CtlCall(_callback_reactor_box_disconnected(CtlCur))

Ctl_start_experiment_on == \E lane \in LedLane : api_start_experiment(lane)

Ctl_pause_experiment_on == \E lane \in LedLane : api_pause_experiment(lane)

Ctl_resume_experiment_on == \E lane \in LedLane : api_resume_experiment(lane)

Ctl_cancel_experiment_on == \E lane \in LedLane : api_cancel_experiment(lane)

Ctl_voltage ==
    \E position \in LedPosition, milli_volts \in MilliVolts :
        voltage_notification(position, milli_volts)

Ctl_ambient_temp == \E temp \in Temperatures : ambient_notification(temp)

Ctl_powerbox_lid ==
    \E state \in CaseLidState : powerbox_lid_notification(state)

Ctl_reactorbox_lid ==
    \E state \in CaseLidState : reactorbox_lid_notification(state)

Ctl_power_box_connected ==
    \E powerbox_lid \in CaseLidState, reactorbox_lid \in CaseLidState,
       water_detected \in BOOLEAN :
        power_box_connected(powerbox_lid, reactorbox_lid, water_detected)

Ctl_reactor_box_connected ==
    \E taken \in SampleInputs, maintenance_mode \in BOOLEAN :
        reactor_box_connected(taken, maintenance_mode)

CtlNext ==
    \/ Ctl_start_experiment_on
    \/ Ctl_pause_experiment_on
    \/ Ctl_resume_experiment_on
    \/ Ctl_cancel_experiment_on
    \/ Ctl_voltage
    \/ Ctl_ambient_temp
    \/ Ctl_powerbox_lid
    \/ Ctl_reactorbox_lid
    \/ Ctl_power_box_connected
    \/ Ctl_reactor_box_connected

CtlSpec == Init /\ [][CtlNext]_vars

----------------------------------------------------------------------------
(* The power box and its panel on their own: one action per public call of *)
(* PowerBox, per assignment to a panel LED property and per monoflop-done  *)
(* callback of the I/O-16 bricklet.                                        *)

BoxCall(c) == nsteps < MaxBoxSteps /\ CtlCall(c)

box_set_led_max_current(position, milli_amps) ==
    BoxCall(set_led_max_current(CtlCur, position, milli_amps))

box_activate_led(position, target_intensity) ==
    BoxCall(activate_led(CtlCur, position, target_intensity))

box_deactivate_led(position) == BoxCall(deactivate_led(CtlCur, position))

panel_assign(channel, new_value) == BoxCall(led(CtlCur, channel, new_value))

monoflop_done(channel, val) ==
    BoxCall(_callback_io_16_led_blink(CtlCur, channel, val))

Box_set_led_max_current ==
    \E position \in LedPosition, milli_amps \in MilliAmps :
        box_set_led_max_current(position, milli_amps)

Box_activate_led ==
    \E position \in LedPosition, target_intensity \in Intensities :
        box_activate_led(position, target_intensity)

Box_deactivate_led ==
    \E position \in LedPosition : box_deactivate_led(position)

Panel_assign ==
    \E channel \in LedChannels, new_value \in LedState \ {UNDEFINED} :
        panel_assign(channel, new_value)

Panel_monoflop_done ==
    \E channel \in LedChannels, val \in BOOLEAN : monoflop_done(channel, val)

BoxNext ==
    \/ Box_set_led_max_current
    \/ Box_activate_led
    \/ Box_deactivate_led
    \/ Panel_assign
    \/ Panel_monoflop_done

BoxSpec == Init /\ [][BoxNext]_vars

----------------------------------------------------------------------------
(* The Controller's sensor observers and connection callbacks with the     *)
(* experiments they act on: the notifications of both boxes, the two       *)
(* connections going up and down, the two reset operations and the start   *)
(* of an experiment.                                                       *)

SensCall(c) == nsteps < MaxSensSteps /\ CtlCall(c)

Sens_start_experiment_on ==
    \E lane \in LedLane :
        nsteps < MaxSensSteps /\ api_start_experiment(lane)

Sens_water ==
    \E detected \in BOOLEAN :
        nsteps < MaxSensSteps /\ water_notification(detected)

Sens_ambient_temp ==
    \E temp \in Temperatures :
        nsteps < MaxSensSteps /\ ambient_notification(temp)

Sens_ir_temp ==
    \E lane \in LedLane, temp \in Temperatures :
        nsteps < MaxSensSteps /\ ir_notification(lane, temp)

Sens_thermocouple ==
    \E temp \in Temperatures :
        \E order \in IterationOrders(threshold_thermocouple_affected_lanes) :
            nsteps < MaxSensSteps /\ thermocouple_notification(temp, order)

Sens_voltage ==
    \E position \in LedPosition, milli_volts \in MilliVolts :
        nsteps < MaxSensSteps /\ voltage_notification(position, milli_volts)

Sens_powerbox_lid ==
    \E state \in CaseLidState :
        nsteps < MaxSensSteps /\ powerbox_lid_notification(state)

Sens_reactorbox_lid ==
    \E state \in CaseLidState :
        nsteps < MaxSensSteps /\ reactorbox_lid_notification(state)

Sens_power_box_connected ==
    \E powerbox_lid \in CaseLidState, reactorbox_lid \in CaseLidState,
       water_detected \in BOOLEAN :
        /\ nsteps < MaxSensSteps
        /\ power_box_connected(powerbox_lid, reactorbox_lid, water_detected)

Sens_power_box_disconnected ==
    nsteps < MaxSensSteps /\ power_box_disconnected

Sens_reactor_box_connected ==
    \E taken \in SampleInputs, maintenance_mode \in BOOLEAN :
        nsteps < MaxSensSteps /\ reactor_box_connected(taken, maintenance_mode)

Sens_reactor_box_disconnected ==
    nsteps < MaxSensSteps /\ reactor_box_disconnected

Sens_reset_ambient_temp_warning ==
    SensCall(reset_ambient_temp_warning(CtlCur))

Sens_reset_lane_ir_warnings == SensCall(reset_lane_ir_warnings(CtlCur))

SensNext ==
    \/ Sens_start_experiment_on
    \/ Sens_water
    \/ Sens_ambient_temp
    \/ Sens_ir_temp
    \/ Sens_thermocouple
    \/ Sens_voltage
    \/ Sens_powerbox_lid
    \/ Sens_reactorbox_lid
    \/ Sens_power_box_connected
    \/ Sens_power_box_disconnected
    \/ Sens_reactor_box_connected
    \/ Sens_reactor_box_disconnected
    \/ Sens_reset_ambient_temp_warning
    \/ Sens_reset_lane_ir_warnings

SensSpec == Init /\ [][SensNext]_vars

----------------------------------------------------------------------------
(* The observable sensor state on its own: one action per attribute        *)
(* assignment.                                                             *)

write_field(attribute, value) ==
    /\ sens.nwrites < MaxWrites
    /\ sens' = [SensorState_setattr(sens, attribute, value)
                    EXCEPT !.nwrites = @ + 1]
    /\ UNCHANGED rvars
    /\ UNCHANGED cvars
    /\ UNCHANGED pid

write_callback(cb) ==
    /\ sens.nwrites < MaxWrites
    /\ sens' = [SensorState_setattr(sens, "callback", cb)
                    EXCEPT !.nwrites = @ + 1]
    /\ UNCHANGED rvars
    /\ UNCHANGED cvars
    /\ UNCHANGED pid

Disp_write_field ==
    \E attribute \in SensorFields :
        \E value \in FieldValues(attribute) : write_field(attribute, value)

Disp_write_callback == \E cb \in SensorObserver : write_callback(cb)

DispNext ==
    \/ Disp_write_field
    \/ Disp_write_callback

DispSpec == Init /\ [][DispNext]_vars

----------------------------------------------------------------------------
(* Steps of the two threads, told apart by the call counter and the clock. *)

CommandStep == ncalls' = ncalls + 1

TimerStep == ncalls' = ncalls /\ now' = now

LedCommands(e) ==
    <<e.times_activation_led, e.times_deactivation_led>>

(* C1: every cancel of a running experiment calls end_experiment exactly   *)
(* once, and a step of the timer thread that is processed while the runner *)
(* is no longer running changes nothing at the power box or controller: no *)
(* LED command, no take-sample prompt, no further record.                  *)
C1_CancelEndsOnceAndTimersAreInert ==
    [][/\ (CommandStep /\ runner.is_running /\ ~runner'.is_running)
            => env'.done = env.done + 1
       /\ (TimerStep /\ ~runner.is_running)
            => /\ LedCommands(env') = LedCommands(env)
               /\ env'.done = env.done
               /\ env'.times_samples = env.times_samples]_vars

(* C2: whenever the runner is idle after an experiment has ended, both LED *)
(* positions of the lane are deactivated.                                  *)
C2_IdleAfterEndHasLedsOff ==
    (~runner.is_running /\ env.done > 0)
        => (~env.led[FRONT] /\ ~env.led[BACK])


(* C3: for each LED position the activate and deactivate commands strictly *)
(* alternate, beginning with activate: a position is activated only while  *)
(* inactive and deactivated only while active.                             *)
C3_LedCommandsAlternate ==
    \A p \in LedSide :
        env.times_activation_led[p] - env.times_deactivation_led[p]
            = IF env.led[p] THEN 1 ELSE 0

(* The runner has finalized in this step. *)
Finalizes == env'.done = env.done + 1 /\ ~runner'.is_running

(* The LEDs were commanded on again and the one-shot timers re-armed. *)
Resumes ==
    /\ ~timer'.paused
    /\ \A p \in LedSide :
           env'.times_activation_led[p] = env.times_activation_led[p] + 1

(* C4: a sample_was_taken call on a runner with needs_sample = TRUE        *)
(* appends one "sample was taken" event, clears needs_sample and either    *)
(* finalizes or resumes (arming the next sample timer when sample points   *)
(* remain); with needs_sample = FALSE the call is a no-op: it returns and  *)
(* changes nothing.                                                        *)
C4_SampleWasTaken ==
    [][(sample_was_taken_on /\ runner.is_running) =>
          IF runner.needs_sample
          THEN /\ Len(runner'.events) = Len(runner.events) + 1
               /\ ~runner'.needs_sample
               /\ (Finalizes \/ Resumes)
          ELSE /\ runner' = runner
               /\ timer' = timer
               /\ env' = [env EXCEPT !.exc = "none"]]_vars


RECURSIVE SumFirst(_, _)
SumFirst(tps, k) == IF k = 0 THEN 0 ELSE SumFirst(tps, k - 1) + tps[k]

Max(a, b) == IF a >= b THEN a ELSE b

(* The experiment was started by the only call made so far: no operator    *)
(* pause, resume or cancel since.                                          *)
OnlyStarted == ncalls = 1 /\ runner.is_running

Elapsed == now - timer.datetime_start

(* The timer polls once per SleepSeconds and compares with >, so an expiry *)
(* due at d is processed by the time Elapsed reaches d + Slack.            *)
Slack == SleepSeconds + 1

(* C5: with no operator pause, the k-th take-sample prompt is raised when  *)
(* the elapsed time equals the sum of the first k sample entries: once     *)
(* that time (plus the polling slack) has passed, at least k prompts have  *)
(* been raised, and never more prompts than there are entries.             *)
C5_PromptsAtCumulativeTimes ==
    OnlyStarted =>
        /\ env.times_samples <= Len(runner.template.tps)
        /\ \A k \in 1..Len(runner.template.tps) :
               Elapsed >= SumFirst(runner.template.tps, k) + Slack
                   => env.times_samples >= k

(* C6: a template without sample points and with both LEDs used activates *)
(* each LED once at start, raises no prompt, deactivates each LED once at  *)
(* its own expiry and calls end_experiment once, when the later LED timer  *)
(* has expired and not when the earlier one has.                           *)
C6_NoSamplesEndsAtLaterLed ==
    (ncalls = 1 /\ runner.state_led_front /\ runner.template.tps = <<>>) =>
        LET tpl == runner.template
        IN  /\ \A p \in LedSide : env.times_activation_led[p] = 1
            /\ env.times_samples = 0
            /\ Elapsed >= tpl.front + Slack
                   => env.times_deactivation_led[FRONT] = 1
            /\ Elapsed >= tpl.back + Slack
                   => env.times_deactivation_led[BACK] = 1
            /\ Elapsed >= Max(tpl.front, tpl.back) + Slack => env.done = 1
            /\ Elapsed <= Max(tpl.front, tpl.back) => env.done = 0


(* The sample points of the template lie past the longer LED exposure. *)
SamplesAfterExposure(tpl) ==
    /\ Len(tpl.tps) > 0
    /\ tpl.tps[1] > Max(tpl.front, tpl.back)

(* A step of the timer thread in which a one-shot timer fires. *)
SampleTimerFires == timer.time_next_sample_set /\ ~timer'.time_next_sample_set

LedTimerFires ==
    \/ timer.time_led_front_set /\ ~timer'.time_led_front_set
    \/ timer.time_led_back_set /\ ~timer'.time_led_back_set

(* C7: with sample points past the longer LED exposure, no expiry of an    *)
(* LED timer or of a sample timer finalizes the experiment; it is          *)
(* finalized by the sample_was_taken that answers the last sample point:   *)
(* once the last sample point has passed and no answer is outstanding, the *)
(* experiment has been finalized (no operator pause or cancel).            *)
C7_FinalizedByLastSampleWasTaken ==
    [][SamplesAfterExposure(runner.template) =>
          /\ (TimerStep /\ (LedTimerFires \/ SampleTimerFires))
                 => env'.done = env.done
          /\ ( /\ thread'.started
               /\ ~timer'.has_paused
               /\ ~runner'.canceled
               /\ runner'.template = runner.template
               /\ now' - timer'.datetime_start
                      >= SumFirst(runner.template.tps,
                                  Len(runner.template.tps)) + Slack
               /\ ~runner'.needs_sample )
                 => env'.done >= 1]_vars

(* C8: when a running, unpaused runner is paused and later resumed, every  *)
(* one-shot timer has at resume the remaining time it had at pause, and no *)
(* one-shot timer fires while the runner is paused.                        *)
C8_PausePreservesRemainingTimes ==
    [][/\ (pause_experiment_on /\ runner.is_running
               /\ timer.has_paused /\ ~timer.paused)
            => /\ timer'.time_remaining_led_front
                      = timer.datetime_led_front - now
               /\ timer'.time_remaining_led_back
                      = timer.datetime_led_back - now
               /\ timer'.time_remaining_next_sample
                      = timer.datetime_next_sample - now
       /\ (resume_experiment_on /\ runner.is_running
               /\ timer.has_paused /\ timer.paused)
            => /\ timer'.datetime_led_front - now
                      = timer.time_remaining_led_front
               /\ timer'.datetime_led_back - now
                      = timer.time_remaining_led_back
               /\ timer'.datetime_next_sample - now
                      = timer.time_remaining_next_sample
       /\ (TimerStep /\ runner.is_running
               /\ timer.has_paused /\ timer.paused)
            => ~(LedTimerFires \/ SampleTimerFires)]_vars

(* C9: pause_experiment on a runner that is already paused, or idle,       *)
(* deactivates no LED, appends no event and leaves the recorded remaining  *)
(* times unchanged.                                                        *)
C9_PauseIsIdempotent ==
    [][(pause_experiment_on
            /\ (~runner.is_running \/ (timer.has_paused /\ timer.paused)))
          => /\ LedCommands(env') = LedCommands(env)
             /\ runner' = runner
             /\ timer' = timer]_vars

(* C10: resume_experiment changes nothing unless the runner is running,    *)
(* paused and has no sample pending: otherwise it moves no timer deadline  *)
(* and activates no LED.                                                   *)
C10_ResumeOnlyWhenPaused ==
    [][(resume_experiment_on
            /\ ~(/\ runner.is_running
                 /\ timer.has_paused /\ timer.paused
                 /\ ~runner.needs_sample))
          => /\ LedCommands(env') = LedCommands(env)
             /\ runner' = runner
             /\ timer' = timer]_vars

----------------------------------------------------------------------------
(* Claims about the Controller (CtlSpec) *)

LaneLedsInactive(b, lane) ==
    /\ Front(lane) \notin DOMAIN b._led_pid
    /\ Back(lane) \notin DOMAIN b._led_pid

(* A lid notification that changes a CLOSED lid to OPEN. *)
LidOpens ==
    \/ ctl.powerbox_lid = CLOSED /\ powerbox_lid_notification(OPEN)
    \/ ctl.reactorbox_lid = CLOSED /\ reactorbox_lid_notification(OPEN)

(* C11: when a lid changes to OPEN while experiments run, every runner     *)
(* that is running and not paused becomes paused with the LEDs of its lane *)
(* deactivated (the lanes so paused being the ones resumed when both lids  *)
(* are closed again).                                                      *)
C11_LidOpenPausesRunningLanes ==
    [][LidOpens =>
          \A lane \in LedLane :
              (sup[lane].is_running /\ ~sup[lane].paused)
                  => /\ sup'[lane].paused
                     /\ LaneLedsInactive(box', lane)]_vars

LidIsOpen == ctl.powerbox_lid = OPEN \/ ctl.reactorbox_lid = OPEN

(* C12: while a lid is OPEN, pause_experiment_on and resume_experiment_on  *)
(* do not change the lane's runner: it stays paused with its LEDs off.     *)
C12_OpenLidCommandsLeaveRunner ==
    [][\A lane \in LedLane :
          ( /\ api_pause_experiment(lane) \/ api_resume_experiment(lane)
            /\ LidIsOpen
            /\ sup[lane].is_running /\ sup[lane].paused
            /\ LaneLedsInactive(box, lane) )
              => /\ sup'[lane].is_running /\ sup'[lane].paused
                 /\ LaneLedsInactive(box', lane)]_vars

(* The lane's experiment was cancelled with an error registered and the    *)
(* event appended to its log.                                              *)
CancelledWith(lane, event) ==
    /\ sup'[lane].events = Append(sup[lane].events, event)
    /\ sup'[lane].error
    /\ sup'[lane].canceled
    /\ ~sup'[lane].is_running

(* C13: an ambient reading above the abort threshold, from any prior       *)
(* status, sets ambient_temp_status to ABORT and the ambient warning LED   *)
(* to LOW, appends the event to the log of every running lane and cancels  *)
(* every running experiment with error registered.                         *)
C13_AmbientAbort ==
    [][\A temp \in Temperatures :
          (ambient_notification(temp) /\ temp > threshold_abort_ambient_temp)
              => /\ ctl'.ambient_temp_status = ABORT
                 /\ io'.value_box[_CHAN_LED_WARNING_TEMP_AMBIENT] = LOW
                 /\ \A lane \in LedLane :
                        sup[lane].is_running =>
                            CancelledWith(lane,
                                "Ambient Temperature exceeded critical threshold")]_vars

VoltageLed(num_errors) ==
    IF num_errors = 0 THEN LOW
    ELSE IF num_errors = 1 THEN BLINK_SLOW ELSE BLINK_FAST

VoltageNotified ==
    \E position \in LedPosition, milli_volts \in MilliVolts :
        voltage_notification(position, milli_volts)

----------------------------------------------------------------------------
(* Claims about the power box and its panel (BoxSpec) *)

RelaysOpen(b, position) ==
    ~b.relay[position][0] /\ ~b.relay[position][1]

(* The commands the call in progress has issued for the position *)
Issued(b, position, name, value) ==
    \E i \in 1..Len(b.log) :
        /\ b.log[i].cmd = name
        /\ b.log[i].led = position
        /\ b.log[i].val = value

C18_DeactivateInactiveIsSafe ==
    [][\A position \in LedPosition :
          (box_deactivate_led(position)
               /\ position \notin DOMAIN box._led_pid)
              => /\ ctl'.exc = "none"
                 /\ Issued(box', position, "set_selected_value", FALSE)
                 /\ Issued(box', position, "set_enable", FALSE)]_vars

(* C19: activate_led(p, intensity) is rejected when no                     *)
(* set_led_max_current(p, _) preceded it or when intensity is outside      *)
(* [0, 1], and a rejected call has no effect: no servo command, no relay   *)
(* command and no PID entry for p.                                         *)
C19_ActivateRejectedHasNoEffect ==
    [][\A position \in LedPosition, target_intensity \in Intensities :
          ( /\ box_activate_led(position, target_intensity)
            /\ \/ position \notin DOMAIN box._led_max_current
               \/ target_intensity < 0
               \/ target_intensity > 100 )
              => /\ ctl'.exc = "AssertionError"
                 /\ box'.log = <<>>
                 /\ box'._led_pid = box._led_pid
                 /\ box'.relay = box.relay
                 /\ box'.servo_enabled = box.servo_enabled]_vars

(* An activate_led was rejected on a power box that has a max current set  *)
(* for some position.                                                      *)
C19_Witness ==
    /\ ctl.exc = "AssertionError"
    /\ DOMAIN box._led_max_current # {}
    /\ box.log = <<>>
    /\ DOMAIN box._led_pid = {}

(* C20: assigning to a panel LED the LedState it already holds sends       *)
(* nothing to the I/O peripheral and leaves the blinking registry          *)
(* unchanged, for each of LOW, HIGH, BLINK_SLOW and BLINK_FAST.            *)
C20_SameLedStateIsSilent ==
    [][\A channel \in LedChannels, new_value \in LedState \ {UNDEFINED} :
          (panel_assign(channel, new_value)
               /\ io.value_box[channel] = new_value)
              => /\ io'.log = <<>>
                 /\ io'._blinking_io16_channels = io._blinking_io16_channels
                 /\ io'.value_box = io.value_box]_vars

(* A blinking LED was assigned its state a second time: the second call    *)
(* left the log of the panel empty.                                        *)
C20_Witness ==
    /\ nsteps = 2
    /\ ctl.exc = "none"
    /\ box = InitBox
    /\ io.log = <<>>
    /\ \E channel \in LedChannels :
           /\ io.value_box[channel] = BLINK_FAST
           /\ channel \in DOMAIN io._blinking_io16_channels
           /\ \A other \in LedChannels \ {channel} :
                  io.value_box[other] = UNDEFINED

----------------------------------------------------------------------------
(* Claims about the observable sensor state (DispSpec) *)

(* The observers of a callback value, in the order they are called *)
Registered(cb) == cb.fs

(* C21: every write to a field other than callback delivers exactly one    *)
(* notification to each registered observer, in list order, carrying the   *)
(* written field and value, an old snapshot with the field's previous      *)
(* value and a new snapshot with the new value, the two agreeing on every  *)
(* other data field; a write to callback delivers none.                    *)
C21_OneNotificationPerObserver ==
    [][/\ \A attribute \in SensorFields :
              \A value \in FieldValues(attribute) :
                  write_field(attribute, value) =>
                      LET fs == Registered(sens.callback)
                          n == Len(sens.received)
                      IN  /\ Len(sens'.received) = n + Len(fs)
                          /\ SubSeq(sens'.received, 1, n) = sens.received
                          /\ \A i \in 1..Len(fs) :
                                 LET note == sens'.received[n + i]
                                 IN  /\ note.observer = fs[i]
                                     /\ note.attribute = attribute
                                     /\ note.value = value
                                     /\ note.old[attribute] = sens[attribute]
                                     /\ note.new[attribute] = value
                                     /\ \A g \in SensorFields \ {attribute} :
                                            /\ note.old[g] = sens[g]
                                            /\ note.new[g] = sens[g]
       /\ \A cb \in SensorObserver :
              write_callback(cb) => sens'.received = sens.received]_vars

(* A list of two observers was notified, in list order, of a write that    *)
(* changed the field, after the callback itself had been written.          *)
C21_Witness ==
    /\ sens.callback = ListCallback(<<"cb2", "cb1">>)
    /\ Len(sens.received) = 2
    /\ sens.received[1].observer = "cb2"
    /\ sens.received[2].observer = "cb1"
    /\ sens.received[1].attribute = "temp"
    /\ sens.received[1].old.temp = 0
    /\ sens.received[1].new.temp = 1
    /\ sens.temp = 1
    /\ sens.nwrites = 2

----------------------------------------------------------------------------
(* Claims about the record of the runner (Spec) *)

(* end_experiment was called in this step *)
RecordHandedOver == env'.done = env.done + 1

(* C22: the record handed to end_experiment has experiment_cancelled set   *)
(* iff the experiment ended through cancel and error_occured set iff       *)
(* register_error was called while that experiment was running; an event   *)
(* added while running is in event_log with the time elapsed since the     *)
(* start of that experiment; start_experiment clears the flags and events  *)
(* of the experiment before.  The flags and the log change in no other     *)
(* step.                                                                   *)
C22_RecordReflectsExperiment ==
    [][/\ RecordHandedOver =>
              /\ env'.exp_data.experiment_cancelled = runner'.canceled
              /\ env'.exp_data.error_occured = runner'.error
              /\ env'.exp_data.event_log = runner'.events
       /\ (cancel_experiment_on /\ runner.is_running) =>
              runner'.canceled /\ RecordHandedOver
       /\ (runner'.canceled /\ ~runner.canceled) => cancel_experiment_on
       /\ (~runner'.canceled /\ runner.canceled) => start_experiment_on
       /\ (register_error_on /\ runner.is_running) => runner'.error
       /\ (runner'.error /\ ~runner.error) =>
              register_error_on /\ runner.is_running
       /\ (~runner'.error /\ runner.error) => start_experiment_on
       /\ (add_event_on /\ runner.is_running) =>
              runner'.events
                  = Append(runner.events, now - timer.datetime_start)
       /\ runner'.events # runner.events =>
              start_experiment_on \/ (add_event_on /\ runner.is_running)
       /\ start_experiment_on =>
              /\ runner'.events = <<>>
              /\ ~runner'.error
              /\ ~runner'.canceled
              /\ timer'.datetime_start = now
       /\ timer'.datetime_start # timer.datetime_start =>
              start_experiment_on]_vars

----------------------------------------------------------------------------
(* Claims about the sensor observers and the connection callbacks          *)
(* (SensSpec)                                                              *)

AmbientNotified == \E temp \in Temperatures : ambient_notification(temp)

(* C23: once ambient_temp_status is ABORT it stays ABORT for every later   *)
(* ambient reading and the ambient warning LED stays LOW; a lane's IR      *)
(* status that is ABORT stays ABORT for every later IR reading of the      *)
(* lane.                                                                   *)
C23_AbortIsTerminal ==
    [][/\ (AmbientNotified /\ ctl.ambient_temp_status = ABORT) =>
              /\ ctl'.ambient_temp_status = ABORT
              /\ io'.value_box[_CHAN_LED_WARNING_TEMP_AMBIENT] = LOW
       /\ \A lane \in LedLane :
              ( /\ \E temp \in Temperatures : ir_notification(lane, temp)
                /\ ctl.IR_temp_threshold_status[lane] = ABORT )
                  => ctl'.IR_temp_threshold_status[lane] = ABORT]_vars

(* No status is ABORT: the case of C23 does not arise. *)
C23_AbortNeverEntered ==
    /\ ctl.ambient_temp_status # ABORT
    /\ \A lane \in LedLane : ctl.IR_temp_threshold_status[lane] # ABORT

(* A notification of one of the five sensors that act on experiments *)
SensorNotified ==
    \/ \E detected \in BOOLEAN : water_notification(detected)
    \/ AmbientNotified
    \/ \E lane \in LedLane, temp \in Temperatures :
           ir_notification(lane, temp)
    \/ \E temp \in Temperatures :
           \E order \in IterationOrders(
                            threshold_thermocouple_affected_lanes) :
               thermocouple_notification(temp, order)
    \/ \E position \in LedPosition, milli_volts \in MilliVolts :
           voltage_notification(position, milli_volts)

(* C24: no sensor observer raises, for any reading and any combination of  *)
(* idle and running lanes.                                                 *)
C24_ObserversNeverRaise == [][SensorNotified => ctl'.exc = "none"]_vars

(* C25: a water_detected=true notification sets led_warning_water to       *)
(* BLINK_FAST, appends "Water leakage detected" to the log of all three    *)
(* lanes and cancels every running experiment with error registered; a     *)
(* water_detected=false notification sets the LED to LOW and cancels       *)
(* nothing.                                                                *)
C25_WaterCancelsAll ==
    [][/\ water_notification(TRUE) =>
              /\ io'.value_box[_CHAN_LED_WARNING_WATER] = BLINK_FAST
              /\ \A lane \in LedLane :
                     sup[lane].is_running =>
                         CancelledWith(lane, "Water leakage detected")
       /\ water_notification(FALSE) =>
              /\ io'.value_box[_CHAN_LED_WARNING_WATER] = LOW
              /\ sup' = sup]_vars

(* C26: for an ambient reading with a status other than ABORT, the status  *)
(* becomes EXCEEDED when warn < temp <= abort, OK_AGAIN when it was        *)
(* EXCEEDED and temp <= warn, and is held when temp <= warn otherwise;     *)
(* after every ambient reading the ambient warning LED is HIGH for OK, LOW *)
(* for EXCEEDED and ABORT, BLINK_SLOW for OK_AGAIN.                        *)
C26_AmbientStatusAndLed ==
    [][\A temp \in Temperatures :
          ambient_notification(temp) =>
              /\ ( /\ ctl.ambient_temp_status # ABORT
                   /\ temp <= threshold_abort_ambient_temp )
                     => ctl'.ambient_temp_status
                            = IF temp > threshold_warn_ambient_temp
                              THEN EXCEEDED
                              ELSE IF ctl.ambient_temp_status = EXCEEDED
                                   THEN OK_AGAIN
                                   ELSE ctl.ambient_temp_status
              /\ io'.value_box[_CHAN_LED_WARNING_TEMP_AMBIENT]
                     = CASE ctl'.ambient_temp_status = OK -> HIGH
                         [] ctl'.ambient_temp_status = OK_AGAIN -> BLINK_SLOW
                         [] OTHER -> LOW]_vars

(* C27: an IR reading on a lane changes only that lane's threshold status  *)
(* and temperature-warning LED and cancels at most that lane's experiment: *)
(* status, warning LED and runner of the other two lanes are unchanged;    *)
(* after the reading the lane's LED is HIGH for OK, BLINK_FAST for         *)
(* EXCEEDED, BLINK_SLOW for OK_AGAIN and LOW for ABORT.                    *)
C27_IrReadingIsPerLane ==
    [][\A lane \in LedLane, temp \in Temperatures :
          ir_notification(lane, temp) =>
              /\ \A other \in LedLane \ {lane} :
                     /\ ctl'.IR_temp_threshold_status[other]
                            = ctl.IR_temp_threshold_status[other]
                     /\ rio'.value_box[IrChannel(other)]
                            = rio.value_box[IrChannel(other)]
                     /\ sup'[other] = sup[other]
                     /\ LaneLedsInactive(box', other)
                            = LaneLedsInactive(box, other)
              /\ rio'.value_box[IrChannel(lane)]
                     = CASE ctl'.IR_temp_threshold_status[lane] = ABORT -> LOW
                         [] ctl'.IR_temp_threshold_status[lane] = EXCEEDED
                              -> BLINK_FAST
                         [] ctl'.IR_temp_threshold_status[lane] = OK_AGAIN
                              -> BLINK_SLOW
                         [] OTHER -> HIGH]_vars

(* C28: a thermocouple reading above the threshold sets the status to      *)
(* EXCEEDED and cancels the experiments of exactly the lanes in            *)
(* affected_lanes, the other lanes keep running; after a reading the       *)
(* thermocouple warning LED is BLINK_SLOW when the status is OK_AGAIN and  *)
(* HIGH when it is OK or EXCEEDED.                                         *)
C28_ThermocoupleCancelsAffected ==
    [][\A temp \in Temperatures :
          \A order \in IterationOrders(
                           threshold_thermocouple_affected_lanes) :
              thermocouple_notification(temp, order) =>
                  /\ temp > threshold_thermocouple_temp =>
                         /\ ctl'.thermocouple_theshold_status = EXCEEDED
                         /\ \A lane \in threshold_thermocouple_affected_lanes :
                                sup[lane].is_running =>
                                    /\ sup'[lane].canceled
                                    /\ ~sup'[lane].is_running
                         /\ \A lane \in LedLane
                                  \ threshold_thermocouple_affected_lanes :
                                sup'[lane] = sup[lane]
                  /\ rio'.value_box[_CHAN_LED_WARNING_THERMOCOUPLE]
                         = IF ctl'.thermocouple_theshold_status = OK_AGAIN
                           THEN BLINK_SLOW ELSE HIGH]_vars

(* A connection or disconnection callback of either box *)
ConnectionEvent ==
    \/ \E powerbox_lid \in CaseLidState, reactorbox_lid \in CaseLidState,
          water_detected \in BOOLEAN :
           power_box_connected(powerbox_lid, reactorbox_lid, water_detected)
    \/ power_box_disconnected
    \/ \E taken \in SampleInputs, maintenance_mode \in BOOLEAN :
           reactor_box_connected(taken, maintenance_mode)
    \/ reactor_box_disconnected

(* C29: after every connection or disconnection event of either box,       *)
(* led_connected is LOW if at least one of the two boxes is disconnected   *)
(* and BLINK_FAST if both are connected.                                   *)
C29_ConnectedLed ==
    [][ConnectionEvent =>
          io'.value_box[_CHAN_LED_CONNECTED]
              = IF ctl'.reactor_box_connected /\ ctl'.power_box_connected
                THEN BLINK_FAST ELSE LOW]_vars

(* C30: in every state reached once the power box has been initialized,    *)
(* led_boxes_closed is HIGH iff both lids are CLOSED, and LOW otherwise.   *)
C30_BoxesClosedLed ==
    ctl.power_callbacks = "all" =>
        io.value_box[_CHAN_LED_BOXES_CLOSED]
            = IF ctl.powerbox_lid = CLOSED /\ ctl.reactorbox_lid = CLOSED
              THEN HIGH ELSE LOW

----------------------------------------------------------------------------
(* Claims about blinking panel LEDs (BoxSpec) *)

(* The period of a blinking LedState, in milliseconds *)
BlinkPeriod(state) == IF state = BLINK_SLOW THEN 500 ELSE 200

(* C31: assigning BLINK_SLOW or BLINK_FAST to a channel bootstraps the     *)
(* blinking with monoflop(ch, true, period); while the channel holds a     *)
(* blink state every monoflop-done(ch, v) re-arms monoflop(ch, v, period)  *)
(* with that state's period (500 ms or 200 ms); once the channel holds LOW *)
(* or HIGH a monoflop-done for it re-arms nothing and leaves the assigned  *)
(* level.                                                                  *)
C31_BlinkRearmsOnlyWhileBlinking ==
    [][\A channel \in LedChannels :
          /\ \A new_value \in {BLINK_SLOW, BLINK_FAST} :
                 ( /\ panel_assign(channel, new_value)
                   /\ io.value_box[channel] # new_value )
                     => io'.log = <<IoCmd("set_monoflop", channel, TRUE,
                                          BlinkPeriod(new_value))>>
          /\ \A val \in BOOLEAN :
                 monoflop_done(channel, val) =>
                     /\ io'.value_box = io.value_box
                     /\ io'.log
                            = IF io.value_box[channel]
                                     \in {BLINK_SLOW, BLINK_FAST}
                              THEN <<IoCmd("set_monoflop", channel, val,
                                           BlinkPeriod(
                                               io.value_box[channel]))>>
                              ELSE <<>>]_vars

(* A channel that was switched from BLINK_SLOW to BLINK_FAST has been      *)
(* re-armed by a monoflop-done(ch, false) with the period of BLINK_FAST.   *)
C31_Witness ==
    /\ nsteps = 3
    /\ ctl.exc = "none"
    /\ \E channel \in LedChannels :
           /\ io.value_box[channel] = BLINK_FAST
           /\ io.log = <<IoCmd("set_monoflop", channel, FALSE, 200)>>

(* A channel that holds LOW or HIGH after a monoflop-done that issued      *)
(* nothing, on a panel whose registry is empty again.                      *)
C31_StoppedIsReached ==
    /\ nsteps = 3
    /\ io.log = <<>>
    /\ DOMAIN io._blinking_io16_channels = {}
    /\ \E channel \in LedChannels : io.value_box[channel] \in {LOW, HIGH}

----------------------------------------------------------------------------
(* Claims about the order of the power box's commands (BoxSpec) *)

(* The value of a relay side after the first k commands of the call, given *)
(* the relays as the call found them.                                      *)
RelayAfter(relay, log, k, position, side) ==
    LET writes == {i \in 1..k : /\ log[i].cmd = "set_selected_value"
                                /\ log[i].led = position
                                /\ log[i].chan = side}
    IN  IF writes = {} THEN relay[position][side]
        ELSE log[CHOOSE i \in writes : \A j \in writes : j <= i].val

(* Side 0 is never closed while side 1 is open, before, during and after   *)
(* the call that leads to the next state.                                  *)
Side0OnlyWithSide1 ==
    \A position \in LedPosition :
        \A k \in 0..Len(box'.log) :
            RelayAfter(box.relay, box'.log, k, position, 0)
                => RelayAfter(box.relay, box'.log, k, position, 1)

----------------------------------------------------------------------------
(* PowerBox.reset_leds and PowerBox._callback_lane_current, and the power  *)
(* box with its two threads: the command thread, which runs the public     *)
(* calls, and the thread that delivers the current callbacks.  No lock     *)
(* guards _led_pid, so deactivate_led and the callback are taken           *)
(* statement by statement; the other calls are one step each.              *)

_PWM_PERIOD_US == 10000

led_iter ==
    <<Front(LANE_1), Back(LANE_1), Front(LANE_2), Back(LANE_2),
      Front(LANE_3), Back(LANE_3)>>

(* A configuration call on the servo bricklet: its name and last argument *)
servo_configure(c, position, name, argument) ==
    [c EXCEPT !.box.log = Append(@, BoxCmd(name, position,
                                    _get_servo_channel_from_led(position),
                                    FALSE, argument))]

RECURSIVE reset_leds_power(_, _)
reset_leds_power(c, i) ==
    IF i > Len(led_iter) THEN c
    ELSE reset_leds_power(
             _disable_led_pwm_controller(
                 _deactivate_led_power(c, led_iter[i]), led_iter[i]),
             i + 1)

RECURSIVE reset_leds_servo(_, _)
reset_leds_servo(c, i) ==
    IF i > Len(led_iter) THEN c
    ELSE LET position == led_iter[i]
             c1 == servo_configure(c, position, "set_degree",
                                   _PWM_MAX_DGREE)
             c2 == servo_configure(c1, position, "set_period",
                                   _PWM_PERIOD_US)
             c3 == servo_configure(c2, position, "set_pulse_width",
                                   _PWM_PERIOD_US)
             c4 == servo_set_position(c3, position, _PWM_MAX_DGREE)
             c5 == servo_configure(c4, position,
                                   "set_motion_configuration", 0)
         IN  reset_leds_servo(servo_set_enable(c5, position, FALSE), i + 1)

(* reset_leds opens the relays and disables the servo channel of every     *)
(* position and configures the servo bricklet; it does not touch _led_pid. *)
reset_leds(c) ==
    IF ~Good(c) THEN c
    ELSE reset_leds_servo(reset_leds_power(c, 1), 1)

(* PidControllerBootstrapper.initialize: target_current.ampere * 0.5, in   *)
(* percent of the full intensity (the target is held in milliamperes).     *)
PidControllerBootstrapper_initialize(target_current) == target_current \div 20

(* min(max(intensity, 0.0), 1.0), in percent *)
clamp(intensity) ==
    IF intensity < 0 THEN 0 ELSE IF intensity > 100 THEN 100 ELSE intensity

(* Inputs: the positions driven, the readings delivered, and the values    *)
(* PidController.update_with_new_measurement returns (it depends on the    *)
(* wall clock), in percent.                                                *)
PidPositions == {Front(LANE_1), Back(LANE_1)}
CurrentReadings == {0, 400}
PidOutputs == {-20, 40, 120}

PidStep(b, newpid) ==
    /\ pid.n < MaxPidSteps
    /\ box' = b
    /\ pid' = [newpid EXCEPT !.n = @ + 1]
    /\ UNCHANGED rvars
    /\ UNCHANGED <<sup, io, ctl, nsteps, rio, sens>>

(* The command thread: whole calls *)
pid_set_led_max_current(position) ==
    /\ pid.cmd_pc = "idle"
    /\ LET c == set_led_max_current(CtlCur, position, TemplateMaxCurrent)
       IN  PidStep(c.box, [pid EXCEPT !.cmd_exc = c.ctl.exc])

pid_activate_led(position) ==
    /\ pid.cmd_pc = "idle"
    /\ LET c == activate_led(CtlCur, position, TemplateIntensity)
       IN  PidStep(c.box,
                   [pid EXCEPT !.cmd_exc = c.ctl.exc,
                               !.controllers =
                                   IF Good(c) THEN @ \ {position} ELSE @])

pid_reset_leds ==
    /\ pid.cmd_pc = "idle"
    /\ LET c == reset_leds(CtlCur)
       IN  PidStep(c.box, [pid EXCEPT !.cmd_exc = c.ctl.exc])

(* The command thread in deactivate_led, statement by statement *)
deactivate_led_side_0(position) ==
    /\ pid.cmd_pc = "idle"
    /\ PidStep(relay_set_selected_value(CtlCur, position, 0, FALSE).box,
               [pid EXCEPT !.cmd_pc = "side_1", !.cmd_led = position,
                           !.cmd_exc = "none"])

deactivate_led_side_1 ==
    /\ pid.cmd_pc = "side_1"
    /\ PidStep(relay_set_selected_value(CtlCur, pid.cmd_led, 1, FALSE).box,
               [pid EXCEPT !.cmd_pc = "pop"])

deactivate_led_pop ==
    /\ pid.cmd_pc = "pop"
    /\ IF pid.cmd_led \in DOMAIN box._led_pid
       THEN PidStep([box EXCEPT !.log = <<>>,
                                !._led_pid = DictPop(@, pid.cmd_led)],
                    [pid EXCEPT !.cmd_pc = "disable",
                                !.controllers = @ \ {pid.cmd_led}])
       ELSE PidStep([box EXCEPT !.log = <<>>],
                    [pid EXCEPT !.cmd_pc = "idle", !.cmd_exc = "KeyError"])

deactivate_led_disable ==
    /\ pid.cmd_pc = "disable"
    /\ PidStep(_disable_led_pwm_controller(CtlCur, pid.cmd_led).box,
               [pid EXCEPT !.cmd_pc = "idle"])

(* The callback thread in _callback_lane_current, statement by statement:  *)
(* `if led not in self._led_pid: return`                                   *)
lane_current_contains(position, current) ==
    /\ pid.cb_pc = "idle"
    /\ PidStep([box EXCEPT !.log = <<>>],
               [pid EXCEPT !.cb_exc = "none", !.cb_led = position,
                           !.cb_pc = IF position \in DOMAIN box._led_pid
                                     THEN "getitem" ELSE "idle"])

(* `controller = self._led_pid[led]` *)
lane_current_getitem ==
    /\ pid.cb_pc = "getitem"
    /\ IF pid.cb_led \in DOMAIN box._led_pid
       THEN PidStep([box EXCEPT !.log = <<>>],
                    [pid EXCEPT !.cb_pc = "measure",
                                !.cb_target = box._led_pid[pid.cb_led],
                                !.cb_controller =
                                    IF pid.cb_led \in pid.controllers
                                    THEN "PidController"
                                    ELSE "PidControllerBootstrapper"])
       ELSE PidStep([box EXCEPT !.log = <<>>],
                    [pid EXCEPT !.cb_pc = "idle", !.cb_exc = "KeyError"])

(* A bootstrapper is initialized and the new controller stored under the   *)
(* position; a controller is updated in place.                             *)
lane_current_measure(pid_output) ==
    /\ pid.cb_pc = "measure"
    /\ IF pid.cb_controller = "PidControllerBootstrapper"
       THEN PidStep([box EXCEPT !.log = <<>>,
                                !._led_pid = DictSet(@, pid.cb_led,
                                                     pid.cb_target)],
                    [pid EXCEPT !.cb_pc = "pwm",
                                !.controllers = @ \cup {pid.cb_led},
                                !.cb_intensity =
                                    clamp(PidControllerBootstrapper_initialize(
                                              pid.cb_target))])
       ELSE PidStep([box EXCEPT !.log = <<>>],
                    [pid EXCEPT !.cb_pc = "pwm",
                                !.cb_intensity = clamp(pid_output)])

(* `self._set_led_pwm_absolute_intensity(led, intensity)` *)
lane_current_pwm ==
    /\ pid.cb_pc = "pwm"
    /\ LET c == _set_led_pwm_absolute_intensity(CtlCur, pid.cb_led,
                                                pid.cb_intensity)
       IN  PidStep(c.box, [pid EXCEPT !.cb_pc = "idle",
                                      !.cb_exc = c.ctl.exc])

Pid_set_led_max_current ==
    \E position \in PidPositions : pid_set_led_max_current(position)

Pid_activate_led == \E position \in PidPositions : pid_activate_led(position)

Pid_deactivate_led_begin ==
    \E position \in PidPositions : deactivate_led_side_0(position)

Pid_lane_current_begin ==
    \E position \in PidPositions, current \in CurrentReadings :
        lane_current_contains(position, current)

Pid_lane_current_measure ==
    \E pid_output \in PidOutputs : lane_current_measure(pid_output)

PidNext ==
    \/ Pid_set_led_max_current
    \/ Pid_activate_led
    \/ pid_reset_leds
    \/ Pid_deactivate_led_begin
    \/ deactivate_led_side_1
    \/ deactivate_led_pop
    \/ deactivate_led_disable
    \/ Pid_lane_current_begin
    \/ lane_current_getitem
    \/ Pid_lane_current_measure
    \/ lane_current_pwm

PidSpec == Init /\ [][PidNext]_vars

----------------------------------------------------------------------------
(* Claims about the power box's two threads (PidSpec) *)

(* A statement of _callback_lane_current is executed *)
CurrentCallbackStep ==
    \/ \E position \in PidPositions, current \in CurrentReadings :
           lane_current_contains(position, current)
    \/ lane_current_getitem
    \/ \E pid_output \in PidOutputs : lane_current_measure(pid_output)
    \/ lane_current_pwm

----------------------------------------------------------------------------
(* Further claims about the runner and its timer (Spec) *)

(* C35: a start request for a runner that is Running is rejected and       *)
(* leaves the running experiment unchanged: its template, event log,       *)
(* measurement log, error and cancelled flags, progress and timer          *)
(* deadlines are not reset, and no LED is activated a second time.         *)
C35_StartOnlyWhenIdle ==
    [][(start_experiment_on /\ runner.is_running) =>
          /\ env'.exc # "none"
          /\ runner' = runner
          /\ timer' = timer
          /\ env'.times_activation_led = env.times_activation_led]_vars

(* state_led_front / state_led_back of the runner *)
state_led(r, side) == IF side = FRONT THEN r.state_led_front ELSE r.state_led_back

(* C36: once the exposure timer of an LED has expired (its state_led flag  *)
(* is cleared and the LED was deactivated), no resume - the operator's or  *)
(* the one inside sample_was_taken - activates that LED again, and a pause *)
(* does not deactivate it a second time.                                   *)
C36_ExpiredLedStaysOff ==
    [][\A side \in LedSide :
          (/\ pause_experiment_on \/ resume_experiment_on
                                  \/ sample_was_taken_on
           /\ runner.is_running
           /\ ~state_led(runner, side))
          => /\ env'.led[side] = FALSE
             /\ env'.times_activation_led[side] =
                    env.times_activation_led[side]
             /\ env'.times_deactivation_led[side] =
                    env.times_deactivation_led[side]]_vars

(* C37: whenever needs_sample is true the runner is running and paused and *)
(* both LEDs of its lane are inactive, and while it stays true no LED      *)
(* timer fires and no LED is energised.                                    *)
C37_PromptHoldsExposure ==
    /\ [](runner.needs_sample =>
             /\ runner.is_running
             /\ timer.paused
             /\ \A side \in LedSide : ~env.led[side])
    /\ [][(runner.needs_sample /\ runner'.needs_sample) =>
             /\ timer'.time_led_front_set = timer.time_led_front_set
             /\ timer'.time_led_back_set = timer.time_led_back_set
             /\ env'.times_activation_led = env.times_activation_led]_vars

(* C37: no state has needs_sample set; only _sample sets it, and the       *)
(* sample timer that calls _sample is never armed (next_sample_in).        *)
C37_NeedsSampleNeverSet ==
    /\ ~runner.needs_sample
    /\ ~timer.time_next_sample_set

----------------------------------------------------------------------------
(* Progress of an experiment (FairSpec).  The timer thread is a daemon     *)
(* thread of the interpreter, which executes its next statement whenever   *)
(* it has one, and the clock advances while the thread sleeps; the         *)
(* operator's commands are under no obligation.                            *)

check_time ==
    \/ check_time_while
    \/ check_time_if_paused
    \/ check_time_measure
    \/ check_time_sample
    \/ check_time_led_front
    \/ check_time_led_back
    \/ check_time_sleep

FairSpec == Spec /\ WF_vars(check_time) /\ WF_vars(Tick)

(* The timer thread is inside the loop of _check_time. *)
ThreadAlive == thread.started /\ thread.pc \notin {"new", "dead", "exited"}

(* Something the experiment is still waiting for: a resume, the answer to  *)
(* a prompt, or a timer that is armed.                                     *)
Outstanding ==
    \/ timer.paused
    \/ runner.needs_sample
    \/ timer.time_next_sample_set
    \/ timer.time_led_front_set
    \/ timer.time_led_back_set

(* C38: every started experiment eventually finalizes, provided the timer  *)
(* thread keeps running, every prompt is answered and every pause is       *)
(* followed by a resume: a running experiment whose timer thread is alive  *)
(* ends, unless the thread stops or the observed time runs out while a     *)
(* resume, an answer or an armed timer is still outstanding.               *)
C38_StartedExperimentFinalizes ==
    (runner.is_running /\ ThreadAlive)
        ~> \/ ~runner.is_running
           \/ ~ThreadAlive
           \/ now = MaxTime /\ Outstanding

----------------------------------------------------------------------------
(* Further claims about the threshold statuses (SensSpec) and the lids     *)
(* (CtlSpec)                                                               *)

(* C39: sensor readings alone never bring a threshold status back to OK:   *)
(* once the ambient, a lane's IR or the thermocouple status has left OK,   *)
(* every step other than the reset operation of that status leaves it in   *)
(* EXCEEDED, OK_AGAIN or ABORT.                                            *)
C39_ReadingsNeverRestoreOk ==
    [][/\ ( /\ ctl.ambient_temp_status # OK
            /\ ~Sens_reset_ambient_temp_warning )
              => ctl'.ambient_temp_status \in {EXCEEDED, OK_AGAIN, ABORT}
       /\ \A lane \in LedLane :
              ( /\ ctl.IR_temp_threshold_status[lane] # OK
                /\ ~Sens_reset_lane_ir_warnings )
                  => ctl'.IR_temp_threshold_status[lane]
                         \in {EXCEEDED, OK_AGAIN, ABORT}
       /\ ctl.thermocouple_theshold_status # OK
              => ctl'.thermocouple_theshold_status
                     \in {EXCEEDED, OK_AGAIN, ABORT}]_vars

(* C39: the ambient and the thermocouple status have left OK and a later   *)
(* reading under the threshold was processed.                              *)
C39_Witness ==
    /\ ctl.ambient_temp_status = OK_AGAIN
    /\ ctl.thermocouple_theshold_status = OK_AGAIN

(* C39: a lane's IR status has left OK and a later reading of the lane     *)
(* under the threshold was processed.                                      *)
C39_IrOkAgainIsReached ==
    \E lane \in LedLane : ctl.IR_temp_threshold_status[lane] = OK_AGAIN

C40_NoActivationWhileLidOpen ==
    [][(ctl'.powerbox_lid = OPEN \/ ctl'.reactorbox_lid = OPEN)
          => DOMAIN box'._led_pid \subseteq DOMAIN box._led_pid]_vars

====
